---------------------------- MODULE Spec2Model ----------------------------
(***************************************************************************)
(* A model of the rustls repository as far as src/ shows it: the bogo test *)
(* shim (src/bogo/src/main.rs) driving one TLS connection, the Stream      *)
(* adapter (src/rustls/src/stream.rs), and the shim's session caches.      *)
(*                                                                         *)
(* The protocol engine itself (handshake state machine, record layer,      *)
(* session stores) is not part of src/; its operators below are written    *)
(* from spec.md and are marked as such.  The shim's control flow is        *)
(* written from the source, line by line.                                  *)
(*                                                                         *)
(* The wire is a sequence of cells.  A TLS record is a content-type cell,  *)
(* a length cell and `len` payload cells; the first payload cell carries   *)
(* the protected fragment (what it is, the key epoch and sequence number   *)
(* it was sealed under, how many plaintext bytes it stands for), the other *)
(* payload cells are padding.  A cell is the unit in which the transport   *)
(* may split a read.                                                       *)
(***************************************************************************)
EXTENDS Integers, Sequences, FiniteSets, TLC

(***************************************************************************)
(* Bounds of the model.                                                    *)
(***************************************************************************)
\* Sequence numbers are counted modulo SeqMod (2^64 in the engine).
SeqMod == 4
\* The peer sends at most this many records on one connection.
MaxPeerRecords == 5
\* The peer requests at most this many key updates.
MaxPeerKeyUpdates == 2
\* Largest n passed to read_n_bytes.
MaxChunk == 3
\* read_n_bytes calls before the test message is queued.
ChunkReads == 4
\* creation_time_sec is counted modulo TimeMod (2^64 in the shim).
TimeMod == 16
\* The clock when the process starts, and when the model stops it.
StartTime == 3
MaxNow == 5
\* Largest -resumption-delay.
MaxDelay == 5
\* Sessions a store keeps (32 in the shim), and the keys they are stored under.
CacheSize == 1
MaxKeys == 2
\* Sessions and tickets issued in one process.
MaxIds == 3

\* The AEAD's safe usage bound: the last sequence number is never used.
\* The connections of one run are numbered 0..MaxCount.
MaxCount == 1

SeqHardLimit == SeqMod - 1

None == "None"

(***************************************************************************)
(* State.                                                                  *)
(***************************************************************************)
VARIABLES
    opts,     \* the shim's Options (the fields the modelled code reads)
    sess,     \* the Connection handed to exec
    conn,     \* the TcpStream: cells in flight, what was written, shutdowns
    pc,       \* where exec (or after_read's failure path) stands
    loc,      \* exec's local variables
    exit,     \* how the process (or the run of exec) ended
    peer,     \* the peer: what it has sent so far
    trace,    \* observations kept for the properties
    srv,      \* ServerCacheWithResumptionDelay and what the server did with it
    cli,      \* ClientCacheWithoutKxHints and what the client did with it
    now       \* the clock, in seconds

connVars == <<opts, sess, conn, pc, loc, exit, peer, trace>>
cacheVars == <<srv, cli, now>>
vars == <<opts, sess, conn, pc, loc, exit, peer, trace, srv, cli, now>>

(***************************************************************************)
(* Sequences.                                                              *)
(***************************************************************************)
Drop(s, k) == SubSeq(s, k + 1, Len(s))
Take(s, k) == SubSeq(s, 1, k)
Min(a, b) == IF a <= b THEN a ELSE b
Range(s) == {s[i] : i \in DOMAIN s}

RECURSIVE SumN(_)
\* Total bytes of a sequence of plaintext chunks [n, b] (n bytes of value b).
SumN(chunks) ==
    IF chunks = <<>> THEN 0 ELSE Head(chunks).n + SumN(Tail(chunks))

(***************************************************************************)
(* The engine: handshake phases and key epochs (spec.md 3, 4.3, 4.4).      *)
(***************************************************************************)
Phases == {"Start", "ExpectClientHello", "ExpectServerHello", "ExpectCertificate",
           "ExpectCertificateVerify", "ExpectFinished", "Established",
           "KeyUpdateInFlight", "Closed"}

\* Key epochs of one direction, in the order the record layer goes through them.
PlaintextEpoch == 0
EarlyDataEpoch == 1
HandshakeEpoch == 2
ApplicationEpoch == 3      \* generation N of the application keys is 3 + N

\* The handshake type of a message; a ClientHello may offer early data and a
\* KeyUpdate may request one in return.
HsType(msg) ==
    CASE msg = "ClientHelloEarly" -> "ClientHello"
      [] msg = "KeyUpdateRequested" -> "KeyUpdate"
      [] OTHER -> msg

\* The accept-set of the current state.
AcceptSet(c) ==
    CASE c.hs = "ExpectClientHello" -> {"ClientHello"}
      [] c.hs = "ExpectServerHello" -> {"ServerHello"}
      [] c.hs = "ExpectCertificate" -> {"Certificate"}
      [] c.hs = "ExpectCertificateVerify" -> {"CertificateVerify"}
      [] c.hs = "ExpectFinished" ->
            IF c.repoch = EarlyDataEpoch THEN {"EndOfEarlyData"} ELSE {"Finished"}
      [] c.hs = "Established" -> {"KeyUpdate"}
      [] c.hs = "KeyUpdateInFlight" -> {"KeyUpdate"}
      [] OTHER -> {}

\* The retry configs a server may hand out when it rejects ECH.
EchRetryConfigs == {"retry_a", "retry_b"}

\* Error::RejectedEch: the error value carries what the server sent as retry
\* configs (an absent list is the empty sequence).
RejectedEch(retry) ==
    IF retry = <<>> THEN "RejectedEch(None)"
    ELSE IF retry[1] = "retry_a" THEN "RejectedEch(retry_a)"
    ELSE "RejectedEch(retry_b)"

IsRejectedEch(e) ==
    e \in {"RejectedEch(None)", "RejectedEch(retry_a)", "RejectedEch(retry_b)"}

\* RejectedEch::retry_configs
retry_configs(e) ==
    CASE e = "RejectedEch(retry_a)" -> <<"retry_a">>
      [] e = "RejectedEch(retry_b)" -> <<"retry_b">>
      [] OTHER -> <<>>

\* The alert the engine sends for an error.
AlertFor(e) ==
    CASE e = "InappropriateHandshakeMessage" -> "unexpected_message"
      [] e = "InappropriateMessage" -> "unexpected_message"
      [] e = "DecryptError" -> "bad_record_mac"
      [] e = "InvalidContentType" -> "decode_error"
      [] e = "TooMuchEarlyDataReceived" -> "unexpected_message"
      [] e = "TooManyKeyUpdateRequests" -> "unexpected_message"
      [] e = "PeerIncompatible" -> "protocol_version"
      [] e = "NoApplicationProtocol" -> "no_application_protocol"
      [] e = "PeerMisbehaved" -> "illegal_parameter"
      [] IsRejectedEch(e) -> "ech_required"
      [] e = "InvalidMessage_NoSignatureSchemes" -> "decode_error"
      [] e = "InvalidMessage_HandshakePayloadTooLarge" -> "decode_error"
      [] e = "NoSignatureSchemesInCommon" -> "handshake_failure"
      [] OTHER -> "internal_error"

\* What a connection takes from its configuration for the negotiation: the
\* protocol versions (TLS1.2 is 771, TLS1.3 is 772), the ALPN protocols in
\* preference order, whether ECH is offered and whether early data is enabled.
DefaultConfig ==
    [versions |-> {771, 772}, alpn_protocols |-> <<>>, ech |-> FALSE,
     enable_early_data |-> FALSE, key_log |-> FALSE]

\* A connection as constructed, before it has done anything.
BlankConnection(side, clientAuth, edMax) ==
    [side |-> side, hs |-> "Start", hsDone |-> FALSE, err |-> None,
     wepoch |-> PlaintextEpoch, wseq |-> 0, repoch |-> PlaintextEpoch, rseq |-> 0,
     outq |-> <<>>, plainIn |-> <<>>, plainOut |-> <<>>,
     closeRcvd |-> FALSE, eofSeen |-> FALSE, closeSent |-> FALSE,
     clientAuth |-> clientAuth, edMax |-> edMax, edLeft |-> 0, edBuf |-> <<>>,
     kuReqs |-> 0, dbuf |-> <<>>, sealed |-> 0,
     cfg |-> DefaultConfig, ticket |-> "none", version |-> <<>>, alpn |-> <<>>,
     ech_status |-> "NotOffered", retry |-> <<>>, early_data_accepted |-> FALSE,
     keylog |-> <<>>]

\* RecordLayer.seal with the write sequence number checked against the bound.
SealWraps(c, typ, msg, chunks) ==
    [c EXCEPT !.outq = Append(@, [typ |-> typ, msg |-> msg, epoch |-> c.wepoch,
                                  seq |-> c.wseq, data |-> chunks]),
              !.wseq = (c.wseq + 1) % SeqMod,
              !.sealed = IF typ = "ApplicationData" THEN @ + 1 ELSE @]

Seal(c, typ, msg, chunks) ==
    IF c.wseq >= SeqHardLimit
    THEN [c EXCEPT !.err = IF @ = None THEN "EncryptError" ELSE @]
    ELSE [c EXCEPT !.outq = Append(@, [typ |-> typ, msg |-> msg, epoch |-> c.wepoch,
                                       seq |-> c.wseq, data |-> chunks]),
                   !.wseq = c.wseq + 1,
                   !.sealed = IF typ = "ApplicationData" THEN @ + 1 ELSE @]

\* A new key epoch for writing: its own sequence-number space.
WriteEpoch(c, e) == [c EXCEPT !.wepoch = e, !.wseq = 0]
ReadEpoch(c, e) == [c EXCEPT !.repoch = e, !.rseq = 0]

\* A fatal error: remembered, and the matching alert queued when it can be sealed.
Fail(c, e) ==
    IF c.err # None THEN c
    ELSE LET a == [c EXCEPT !.err = e]
         IN  IF a.wseq >= SeqHardLimit THEN a
             ELSE Seal(a, "Alert", AlertFor(e), <<>>)


\* Outbound plaintext buffered during the handshake is framed once it ends.
FlushPlainOut(c) ==
    IF c.plainOut = <<>> THEN c
    ELSE Seal([c EXCEPT !.plainOut = <<>>], "ApplicationData", "data", c.plainOut)

\* The peer's KeyUpdate in Established or KeyUpdateInFlight; the number of
\* consecutive requests without application data in between is bounded.
MaxKeyUpdateRequests == 1

HandleKeyUpdate(c, msg) ==
    IF c.kuReqs + 1 > MaxKeyUpdateRequests
    THEN Fail(c, "TooManyKeyUpdateRequests")
    ELSE LET r == ReadEpoch([c EXCEPT !.kuReqs = @ + 1], c.repoch + 1)
         IN  IF c.hs = "KeyUpdateInFlight"
             THEN [r EXCEPT !.hs = "Established"]
             ELSE IF msg = "KeyUpdateRequested"
                  THEN LET s == Seal(r, "Handshake", "KeyUpdate", <<>>)
                       IN  IF s.err # None THEN s ELSE WriteEpoch(s, s.wepoch + 1)
                  ELSE r

\* The handshake is over: application keys in both directions.
Complete(c) ==
    FlushPlainOut([c EXCEPT !.hs = "Established", !.hsDone = TRUE])

\* The state's handler for a message of its accept-set: the next state, the
\* key epochs and the outbound flight.
HandleMessage(c, msg) ==
    CASE c.hs = "ExpectClientHello" ->
            LET hello == Seal(c, "Handshake", "ServerHello", <<>>)
                flight == Seal(WriteEpoch(hello, HandshakeEpoch),
                               "Handshake", "ServerFlight", <<>>)
                w == WriteEpoch(flight, ApplicationEpoch)
                early == msg = "ClientHelloEarly" /\ c.edMax > 0
            IN  IF early
                THEN [ReadEpoch(w, EarlyDataEpoch) EXCEPT
                          !.hs = "ExpectFinished", !.edLeft = c.edMax]
                ELSE [ReadEpoch(w, HandshakeEpoch) EXCEPT
                          !.hs = IF c.clientAuth THEN "ExpectCertificate"
                                 ELSE "ExpectFinished"]
      [] c.hs = "ExpectServerHello" ->
            [ReadEpoch(WriteEpoch(c, HandshakeEpoch), HandshakeEpoch) EXCEPT
                 !.hs = "ExpectCertificate"]
      [] c.hs = "ExpectCertificate" -> [c EXCEPT !.hs = "ExpectCertificateVerify"]
      [] c.hs = "ExpectCertificateVerify" -> [c EXCEPT !.hs = "ExpectFinished"]
      [] c.hs = "ExpectFinished" ->
            IF msg = "EndOfEarlyData" THEN ReadEpoch(c, HandshakeEpoch)
            ELSE IF c.side = "Client" /\ c.ech_status = "Rejected"
                 THEN Fail(c, RejectedEch(c.retry))
            ELSE IF c.side = "Client"
                 THEN LET fin == Seal(c, "Handshake", "Finished", <<>>)
                      IN  Complete(ReadEpoch(WriteEpoch(fin, ApplicationEpoch),
                                             ApplicationEpoch))
                 ELSE Complete(ReadEpoch(c, ApplicationEpoch))
      [] c.hs \in {"Established", "KeyUpdateInFlight"} -> HandleKeyUpdate(c, msg)
      [] OTHER -> c

\* ClientConnection::new / ServerConnection::new: the client queues its
\* ClientHello, the server waits for one.
NewConnection(side, clientAuth, edMax) ==
    LET c == BlankConnection(side, clientAuth, edMax)
    IN  IF side = "Client"
        THEN [Seal(c, "Handshake", "ClientHello", <<>>) EXCEPT !.hs = "ExpectServerHello"]
        ELSE [c EXCEPT !.hs = "ExpectClientHello"]

OpensStale(c, rec) ==
    rec.epoch \in {c.repoch, c.repoch - 1} /\ c.rseq < SeqHardLimit

\* RecordLayer.open: the record was sealed under the live read key with the
\* next sequence number.
Opens(c, rec) ==
    rec.epoch = c.repoch /\ rec.seq = c.rseq /\ c.rseq < SeqHardLimit

\* Early data is admitted while the budget lasts.
TakeEarlyData(c, chunks) ==
    IF SumN(chunks) > c.edLeft
    THEN Fail(c, "TooMuchEarlyDataReceived")
    ELSE [c EXCEPT !.edLeft = @ - SumN(chunks), !.edBuf = @ \o chunks]

\* The error for a fatal alert from the peer.
AlertReceived(desc) ==
    CASE desc = "handshake_failure" -> "AlertReceived_HandshakeFailure"
      [] desc = "protocol_version" -> "AlertReceived_ProtocolVersion"
      [] desc = "decompression_failure" -> "AlertReceived_DecompressionFailure"
      [] desc = "decode_error" -> "AlertReceived_DecodeError"
      [] desc = "unknown_ca" -> "AlertReceived_UnknownCA"
      [] OTHER -> "AlertReceived_Other"

\* The extensions of a hello message travel as the payload of its record.
HelloData(ext) == <<[n |-> 0, b |-> 0, ext |-> ext]>>

\* Version negotiation: the highest version both sides support, if any.
select_version(mine, theirs) ==
    IF 772 \in mine \cap theirs THEN <<772>>
    ELSE IF 771 \in mine \cap theirs THEN <<771>>
    ELSE <<>>

select_alpn_client_order(server_list, offered) ==
    LET common == SelectSeq(offered, LAMBDA p : p \in Range(server_list))
    IN  IF common = <<>> THEN <<>> ELSE <<common[1]>>

\* ALPN: the first protocol of the server's preference list that the client
\* offered, if any.
select_alpn(server_list, offered) ==
    LET common == SelectSeq(server_list, LAMBDA p : p \in Range(offered))
    IN  IF common = <<>> THEN <<>> ELSE <<common[1]>>

\* Both sides configured ALPN.
AlpnInPlay(server_list, offered) == server_list # <<>> /\ offered # <<>>

\* The client offers early data when it is enabled and the ticket it resumes
\* with allows it.
EarlyDataOffered(c) ==
    c.side = "Client" /\ c.cfg.enable_early_data /\ c.ticket = "early"

\* The server reads the extensions of the ClientHello.
ClientHelloReceived(c, ext) ==
    LET v == select_version(c.cfg.versions, ext.versions)
        p == select_alpn(c.cfg.alpn_protocols, ext.alpn)
    IN  IF v = <<>> THEN Fail(c, "PeerIncompatible")
        ELSE IF AlpnInPlay(c.cfg.alpn_protocols, ext.alpn) /\ p = <<>>
        THEN Fail(c, "NoApplicationProtocol")
        ELSE [c EXCEPT !.version = v,
                       !.alpn = IF AlpnInPlay(c.cfg.alpn_protocols, ext.alpn)
                                THEN p ELSE <<>>]

\* The client reads the extensions of the server's hello flight.
ServerHelloReceived(c, ext) ==
    IF ext.version \notin c.cfg.versions THEN Fail(c, "PeerIncompatible")
    ELSE IF ext.alpn # <<>> /\ ext.alpn[1] \notin Range(c.cfg.alpn_protocols)
    THEN Fail(c, "PeerMisbehaved")
    ELSE IF ext.early_data /\ ~EarlyDataOffered(c) THEN Fail(c, "PeerMisbehaved")
    ELSE [c EXCEPT !.version = <<ext.version>>,
                   !.alpn = ext.alpn,
                   !.ech_status = IF ~c.cfg.ech THEN "NotOffered"
                                  ELSE IF ext.ech_accepted THEN "Accepted"
                                  ELSE "Rejected",
                   !.retry = IF c.cfg.ech /\ ~ext.ech_accepted
                             THEN ext.retry_configs ELSE <<>>,
                   !.early_data_accepted = ext.early_data]

HelloReceived(c, ext) ==
    CASE c.hs = "ExpectClientHello" -> ClientHelloReceived(c, ext)
      [] c.hs = "ExpectServerHello" -> ServerHelloReceived(c, ext)
      [] OTHER -> c

\* The length of the secrets of the connection's hash, and a traffic secret
\* of this connection for one direction (a byte string: length and content).
TrafficSecret(dir) == [n |-> 32, b |-> IF dir = "client" THEN 11 ELSE 12]

\* The KeyLog calls the key schedule makes when the application traffic
\* secrets become available (TLS1.3), or the master secret (TLS1.2).
KeyLogCalls(c) ==
    IF ~c.cfg.key_log THEN <<>>
    ELSE IF c.version = <<771>>
    THEN <<[label |-> "CLIENT_RANDOM", secret |-> [n |-> 48, b |-> 13]]>>
    ELSE <<[label |-> "CLIENT_TRAFFIC_SECRET_0", secret |-> TrafficSecret("client")],
           [label |-> "SERVER_TRAFFIC_SECRET_0", secret |-> TrafficSecret("server")],
           [label |-> "EXPORTER_SECRET", secret |-> [n |-> 32, b |-> 14]]>>

\* A handshake message of the accept-set: its extensions first, then the
\* state's handler; the secrets are logged in the step that brings the
\* application keys.
HandleHandshake(c, rec) ==
    LET h == IF rec.data = <<>> THEN c ELSE HelloReceived(c, rec.data[1].ext)
        m == HandleMessage(h, rec.msg)
    IN  IF h.err # None THEN h
        ELSE IF h.wepoch < ApplicationEpoch /\ m.wepoch = ApplicationEpoch
        THEN [m EXCEPT !.keylog = @ \o KeyLogCalls(m)]
        ELSE m

\* One deframed record, in arrival order.
ProcessRecord(c, rec) ==
    IF c.err # None \/ c.closeRcvd THEN c
    ELSE IF ~Opens(c, rec) THEN Fail(c, "DecryptError")
    ELSE LET o == [c EXCEPT !.rseq = @ + 1]
         IN  CASE rec.typ = "Handshake" ->
                    IF HsType(rec.msg) \in AcceptSet(o)
                    THEN HandleHandshake(o, rec)
                    ELSE Fail(o, "InappropriateHandshakeMessage")
               [] rec.typ = "ApplicationData" ->
                    IF o.hsDone
                    THEN [o EXCEPT !.plainIn = @ \o rec.data, !.kuReqs = 0]
                    ELSE IF o.repoch = EarlyDataEpoch
                         THEN TakeEarlyData(o, rec.data)
                         ELSE Fail(o, "InappropriateMessage")
               [] rec.typ = "Alert" ->
                    IF rec.msg = "close_notify"
                    THEN [o EXCEPT !.closeRcvd = TRUE]
                    ELSE [o EXCEPT !.err = AlertReceived(rec.msg)]
               [] OTHER -> Fail(o, "InvalidContentType")

(***************************************************************************)
(* Codec and deframer (spec.md 4.1, 6).                                    *)
(***************************************************************************)
ContentTypes == {"Handshake", "ApplicationData", "Alert"}

\* A record on the wire: type, length, and `len` payload cells.
Encode(rec) ==
    <<[t |-> rec.typ], [l |-> 1 + rec.pad],
      [f |-> [msg |-> rec.msg, epoch |-> rec.epoch, seq |-> rec.seq,
              data |-> rec.data]]>>
    \o [i \in 1..rec.pad |-> [p |-> i]]

RECURSIVE EncodeAll(_)
EncodeAll(recs) ==
    IF recs = <<>> THEN <<>> ELSE Encode(Head(recs)) \o EncodeAll(Tail(recs))

\* What the buffered cells start with: nothing, a complete record, the
\* beginning of one (need more input), or something that is no record.
Deframe(buf) ==
    IF buf = <<>> THEN "empty"
    ELSE IF buf[1].t \notin ContentTypes THEN "invalid"
    ELSE IF Len(buf) < 2 THEN "partial"
    ELSE IF Len(buf) < 2 + buf[2].l THEN "partial"
    ELSE "record"

FirstRecord(buf) ==
    [typ |-> buf[1].t, msg |-> buf[3].f.msg, epoch |-> buf[3].f.epoch,
     seq |-> buf[3].f.seq, data |-> buf[3].f.data, pad |-> buf[2].l - 1]

\* read_tls: bytes from the transport go to the deframer; none means EOF.
ReadTls(c, cells) ==
    IF cells = <<>> THEN [c EXCEPT !.eofSeen = TRUE]
    ELSE [c EXCEPT !.dbuf = @ \o cells]

RECURSIVE ProcessNewPackets(_)
\* process_new_packets: every complete buffered record, in order, up to the
\* first error; an incomplete record stays buffered.
ProcessNewPackets(c) ==
    IF c.err # None THEN c
    ELSE LET d == Deframe(c.dbuf)
         IN  CASE d = "record" ->
                    ProcessNewPackets(
                        ProcessRecord([c EXCEPT !.dbuf = Drop(@, 2 + c.dbuf[2].l)],
                                      FirstRecord(c.dbuf)))
               [] d = "invalid" -> Fail(c, "InvalidContentType")
               [] OTHER -> c

(***************************************************************************)
(* The engine's interface to the transport adapter (spec.md 6).            *)
(***************************************************************************)
wants_write(c) == c.outq # <<>>

wants_read(c) ==
    c.plainIn = <<>> /\ ~c.closeRcvd /\ (c.hsDone \/ c.outq = <<>>)

is_handshaking(c) == ~c.hsDone

is_early_data_accepted(c) == c.early_data_accepted

protocol_version(c) == c.version

alpn_protocol(c) == c.alpn

\* ClientConnection::early_data: there while the client has offered early
\* data and has not yet seen the server's answer.
early_data_available(c) == EarlyDataOffered(c) /\ c.hs = "ExpectServerHello"

\* WriteEarlyData::write: the bytes go out under the early-data key.
early_data_write(c, chunks) ==
    IF chunks = <<>> THEN c
    ELSE
    [c EXCEPT !.outq = Append(@, [typ |-> "ApplicationData", msg |-> "data",
                                  epoch |-> EarlyDataEpoch, seq |-> 0,
                                  data |-> chunks]),
              !.sealed = @ + 1]

\* Application data may be framed once the handshake is over and until the
\* connection is closed for writing.
MaySeal(c) == c.hsDone /\ c.hs # "Closed" /\ c.err = None

WriterWriteAlways(c, chunks) ==
    IF chunks = <<>> THEN c
    ELSE IF c.hsDone THEN Seal(c, "ApplicationData", "data", chunks)
    ELSE [c EXCEPT !.plainOut = @ \o chunks]

\* writer().write_all
WriterWrite(c, chunks) ==
    IF chunks = <<>> THEN c
    ELSE IF MaySeal(c) THEN Seal(c, "ApplicationData", "data", chunks)
    ELSE IF c.hsDone THEN c
    ELSE [c EXCEPT !.plainOut = @ \o chunks]

\* send_close_notify: the alert is queued and the connection is closed.
send_close_notify(c) ==
    IF c.closeSent THEN c
    ELSE [Seal(c, "Alert", "close_notify", <<>>) EXCEPT
              !.closeSent = TRUE, !.hs = "Closed"]

\* refresh_traffic_keys: the KeyUpdate goes out under the old keys, what
\* follows under the new ones.
refresh_traffic_keys(c) ==
    LET s == Seal(c, "Handshake", "KeyUpdateRequested", <<>>)
    IN  IF s.err # None THEN s
        ELSE [WriteEpoch(s, s.wepoch + 1) EXCEPT
                  !.hs = IF @ = "Established" THEN "KeyUpdateInFlight" ELSE @]

\* reader().read(buf) with a buffer of `size` bytes: the bytes, or how the
\* stream stands.
ReaderResult(c) ==
    IF c.plainIn # <<>> THEN "data"
    ELSE IF c.closeRcvd THEN "zero"
    ELSE IF c.eofSeen THEN "UnexpectedEof"
    ELSE "WouldBlock"

RECURSIVE TakeBytes(_, _)
\* The first `size` bytes of a sequence of chunks.
TakeBytes(chunks, size) ==
    IF chunks = <<>> \/ size = 0 THEN <<>>
    ELSE IF Head(chunks).n <= size
         THEN <<Head(chunks)>> \o TakeBytes(Tail(chunks), size - Head(chunks).n)
         ELSE <<[Head(chunks) EXCEPT !.n = size]>>

RECURSIVE DropBytes(_, _)
DropBytes(chunks, size) ==
    IF chunks = <<>> \/ size = 0 THEN chunks
    ELSE IF Head(chunks).n <= size
         THEN DropBytes(Tail(chunks), size - Head(chunks).n)
         ELSE <<[Head(chunks) EXCEPT !.n = @ - size]>> \o Tail(chunks)


(***************************************************************************)
(* The shim (src/bogo/src/main.rs).  Options that are not fields of `opts` *)
(* stand at the values Options::new gives them; loc.count is the count     *)
(* exec is called with (0 for the first connection of the run).            *)
(***************************************************************************)
Running == [kind |-> "running", status |-> 0, reason |-> None]
Returned == [kind |-> "returned", status |-> 0, reason |-> None]
Panicked == [kind |-> "panicked", status |-> 101, reason |-> None]

\* quit / quit_err / process::exit
quit(why) == [kind |-> "exited", status |-> 0, reason |-> why]
quit_err(why) == [kind |-> "exited", status |-> 1, reason |-> why]

handle_err_fixme(o, err) == quit(":FIXME:")

handle_err_unchecked_retry(o, err) ==
    IF IsRejectedEch(err) THEN quit(":ECH_REJECTED:") ELSE quit(":FIXME:")

\* handle_err: the failure string for an error of the engine.
handle_err(o, err) ==
    CASE err \in {"InappropriateHandshakeMessage", "InappropriateMessage"} ->
            quit(":UNEXPECTED_MESSAGE:")
      [] err = "AlertReceived_HandshakeFailure" -> quit(":HANDSHAKE_FAILURE:")
      [] err = "AlertReceived_ProtocolVersion" -> quit(":WRONG_VERSION:")
      [] err = "InvalidContentType" -> quit(":GARBAGE:")
      [] err = "DecryptError" ->
            IF o.ech_config_list THEN quit(":INCONSISTENT_ECH_NEGOTIATION:")
            ELSE quit(":DECRYPTION_FAILED_OR_BAD_RECORD_MAC:")
      [] err = "TooMuchEarlyDataReceived" -> quit(":TOO_MUCH_READ_EARLY_DATA:")
      [] err = "TooManyKeyUpdateRequests" -> quit(":TOO_MANY_KEY_UPDATES:")
      [] err = "NoApplicationProtocol" -> quit(":NO_APPLICATION_PROTOCOL:")
      [] IsRejectedEch(err) ->
            \* assert_eq!(rejected_err.retry_configs().as_ref(), Some(expected_configs))
            IF o.expect_ech_retry_configs # <<>>
               /\ retry_configs(err) # o.expect_ech_retry_configs
            THEN Panicked
            ELSE quit(":ECH_REJECTED:")
      [] err = "PeerIncompatible" -> quit(":INCOMPATIBLE:")
      [] err = "PeerMisbehaved" -> quit(":PEER_MISBEHAVIOUR:")
      [] err = "AlertReceived_DecompressionFailure" ->
            quit_err(":SSLV3_ALERT_DECOMPRESSION_FAILURE:")
      [] OTHER -> quit(":FIXME:")

max_early_data_size_large == 14336 + 2048

\* make_server_cfg: the early-data budget of a server with early data enabled.
max_early_data_size == 14336

\* Options::version_allowed
version_allowed(o, vers) ==
    /\ o.min_version = <<>> \/ vers >= o.min_version[1]
    /\ o.max_version = <<>> \/ vers <= o.max_version[1]

tls13_supported(o) == o.support_tls13 /\ version_allowed(o, 772)

tls12_supported(o) == o.support_tls12 /\ version_allowed(o, 771)

supported_versions_unbounded(o) ==
    (IF o.support_tls12 THEN <<771>> ELSE <<>>)
    \o (IF o.support_tls13 THEN <<772>> ELSE <<>>)

\* Options::supported_versions
supported_versions(o) ==
    (IF tls12_supported(o) THEN <<771>> ELSE <<>>)
    \o (IF tls13_supported(o) THEN <<772>> ELSE <<>>)

server_alpn_ignores_reject(o) == o.protocols

\* make_server_cfg: cfg.alpn_protocols
server_alpn(o) ==
    IF o.reject_alpn THEN <<"invalid">> ELSE o.protocols

\* make_server_cfg: what the negotiation reads of the ServerConfig.
make_server_cfg(o) ==
    [versions |-> Range(supported_versions(o)), alpn_protocols |-> server_alpn(o),
     ech |-> FALSE, enable_early_data |-> FALSE, key_log |-> o.export_traffic_secrets]

\* make_client_cfg: what the negotiation reads of the ClientConfig; with an
\* ECH config list the builder is the one with_ech returns (TLS1.3 only).
make_client_cfg(o) ==
    [versions |-> IF o.ech_config_list THEN {772} ELSE Range(supported_versions(o)),
     alpn_protocols |-> o.protocols, ech |-> o.ech_config_list,
     enable_early_data |-> o.enable_early_data, key_log |-> o.export_traffic_secrets]

\* What make_server_cfg / make_client_cfg and make_session build from the options.
make_session(o) ==
    [NewConnection(o.side, o.side = "Server" /\ o.verify_peer,
                   IF o.side = "Server" /\ o.enable_early_data
                   THEN max_early_data_size ELSE 0)
        EXCEPT !.cfg = IF o.side = "Server" THEN make_server_cfg(o)
                       ELSE make_client_cfg(o)]

early_data_check_any_count(o, c, count) ==
    IF o.enable_early_data /\ o.side = "Client" /\ ~is_handshaking(c)
    THEN IF o.expect_accept_early_data /\ ~is_early_data_accepted(c)
         THEN quit_err("Early data was not accepted, but we expect the opposite")
         ELSE IF o.expect_reject_early_data /\ is_early_data_accepted(c)
         THEN quit_err("Early data was accepted, but we expect the opposite")
         ELSE Running
    ELSE Running

\* exec: the early-data block of a resumed client connection; Running when
\* it lets the loop go on.
early_data_check(o, c, count) ==
    IF o.enable_early_data /\ o.side = "Client" /\ ~is_handshaking(c) /\ count > 0
    THEN IF o.expect_accept_early_data /\ ~is_early_data_accepted(c)
         THEN quit_err("Early data was not accepted, but we expect the opposite")
         ELSE IF o.expect_reject_early_data /\ is_early_data_accepted(c)
         THEN quit_err("Early data was accepted, but we expect the opposite")
         ELSE IF o.expect_version = 772 /\ protocol_version(c) \notin {<<772>>, <<32535>>}
         THEN quit_err("wrong protocol version")
         ELSE Running
    ELSE Running

\* buf[i] ^= 0xff on every byte of the chunks.
Xor(chunks) == [i \in DOMAIN chunks |-> [chunks[i] EXCEPT !.b = 255 - @]]

\* exec 1350-1355, 1536-1541: what is written back of the bytes read, each
\* XORed with 0xff.
echo_unchanged(chunks) == chunks

echo_of(chunks) == Xor(chunks)

\* flush: write_tls while wants_write; a write on a reset transport fails.
FlushFails(c, k) == wants_write(c) /\ k.reset
FlushedSess(c) == [c EXCEPT !.outq = <<>>]
FlushedConn(c, k) == [k EXCEPT !.wire = @ \o c.outq, !.partial = 0]

\* The first handshake message process_new_packets meets that is outside the
\* accept-set of the state it arrives in, with that state (None: there is none).
\* No offending message seen.
NoOffender == [msg |-> None, hs |-> None]

RECURSIVE FirstOffender(_)
FirstOffender(c) ==
    IF c.err # None \/ Deframe(c.dbuf) # "record" THEN NoOffender
    ELSE LET rec == FirstRecord(c.dbuf)
             rest == [c EXCEPT !.dbuf = Drop(@, 2 + c.dbuf[2].l)]
         IN  IF /\ ~c.closeRcvd
                /\ Opens(c, rec)
                /\ rec.typ = "Handshake"
                /\ HsType(rec.msg) \notin AcceptSet(c)
             THEN [hs |-> c.hs, msg |-> rec.msg]
             ELSE FirstOffender(ProcessRecord(rest, rec))

RECURSIVE Arrivals(_)
\* The records process_new_packets takes from the deframer, in order, each
\* with the read epoch it met and whether it was opened.
Arrivals(c) ==
    IF c.err # None \/ c.closeRcvd \/ Deframe(c.dbuf) # "record" THEN <<>>
    ELSE LET rec == FirstRecord(c.dbuf)
             rest == [c EXCEPT !.dbuf = Drop(@, 2 + c.dbuf[2].l)]
         IN  <<[typ |-> rec.typ, msg |-> rec.msg, epoch |-> rec.epoch, seq |-> rec.seq,
                n |-> SumN(rec.data), repoch |-> c.repoch, opened |-> Opens(c, rec)]>>
             \o Arrivals(ProcessRecord(rest, rec))

\* The phases the connection went through, a new entry at each change.
Visit(phases, c) ==
    IF phases[Len(phases)] = c.hs THEN phases ELSE Append(phases, c.hs)

RECURSIVE PhasesOf(_, _)
\* The phases process_new_packets goes through on the buffered records.
PhasesOf(phases, c) ==
    IF c.err # None \/ Deframe(c.dbuf) # "record" THEN phases
    ELSE LET n == ProcessRecord([c EXCEPT !.dbuf = Drop(@, 2 + c.dbuf[2].l)],
                                FirstRecord(c.dbuf))
         IN  PhasesOf(Visit(phases, n), n)


\* b"hello"
Hello == <<[n |-> 5, b |-> 104, off |-> 0]>>

\* exec 1323, 1326: what early_data().write accepted of the message, b"hello"
\* up to len, and the rest of it, &b"hello"[len..].
HelloWhole(len) == Hello

HelloUpTo(len) ==
    IF len = 0 THEN <<>> ELSE <<[Hello[1] EXCEPT !.n = len]>>

HelloFrom(len) ==
    IF len >= Hello[1].n THEN <<>>
    ELSE <<[Hello[1] EXCEPT !.n = @ - len, !.off = len]>>

\* The state of the shim when exec starts on a fresh connection.
FreshConn == [inb |-> <<>>, peerEof |-> FALSE, reset |-> FALSE,
              wire |-> <<>>, wshut |-> FALSE, rshut |-> FALSE, partial |-> 0]
\* KeyLogMemoInner (Default): two empty byte strings.
NoBytes == [n |-> 0, b |-> 0]
KeyLogMemo_default == [client_traffic_secret |-> NoBytes, server_traffic_secret |-> NoBytes]

KeyLogMemo_log_swapped(memo, label, secret) ==
    CASE label = "CLIENT_TRAFFIC_SECRET_0" -> [memo EXCEPT !.server_traffic_secret = secret]
      [] label = "SERVER_TRAFFIC_SECRET_0" -> [memo EXCEPT !.client_traffic_secret = secret]
      [] OTHER -> memo

\* KeyLogMemo::log
KeyLogMemo_log(memo, label, secret) ==
    CASE label = "CLIENT_TRAFFIC_SECRET_0" -> [memo EXCEPT !.client_traffic_secret = secret]
      [] label = "SERVER_TRAFFIC_SECRET_0" -> [memo EXCEPT !.server_traffic_secret = secret]
      [] OTHER -> memo

RECURSIVE LogAll(_, _)
\* The calls the engine made during one process_new_packets, in order.
LogAll(memo, calls) ==
    IF calls = <<>> THEN memo
    ELSE LogAll(KeyLogMemo_log(memo, Head(calls).label, Head(calls).secret), Tail(calls))

\* What the memo holds after process_new_packets took connection c to n.
Logged(memo, c, n) == LogAll(memo, Drop(n.keylog, Len(c.keylog)))

\* exec: the bytes written for -export-traffic-secrets.
ExportedSecrets(memo) ==
    SelectSeq(<<[n |-> 2, b |-> memo.client_traffic_secret.n],
                memo.server_traffic_secret, memo.client_traffic_secret>>,
              LAMBDA ch : ch.n > 0)

FreshLoc == [sent_message |-> FALSE, sent_shutdown |-> FALSE, sent_exporter |-> FALSE,
             sent_key_update |-> FALSE, quench_writes |-> FALSE, i |-> 1, count |-> 0,
             key_log |-> KeyLogMemo_default]
\* What the peer is configured with: its versions, its ALPN protocols, and
\* as a server its answer to ECH (with retry configs) and to early data.
DefaultPeerConfig ==
    [versions |-> {771, 772}, alpn |-> <<>>, ech_accepted |-> TRUE,
     retry_configs |-> <<>>, early_data |-> FALSE]
FreshPeer == [sent |-> 0, kus |-> 0, wepoch |-> PlaintextEpoch, wseq |-> 0, step |-> 0,
              late |-> 0, cfg |-> DefaultPeerConfig]
\* How often each one-shot action of exec was performed in this run, and
\* whether one of them was performed while the handshake was still going.
NoShots == [message |-> 0, shutdown |-> 0, export |-> 0, key_update |-> 0,
            handshaking |-> FALSE]

Shot(sh, what, fired) == IF fired THEN [sh EXCEPT ![what] = @ + 1] ELSE sh

\* exec 1307: the test message is due at the top of the loop.
queue_message(o, l) ==
    /\ ~l.sent_message
    /\ o.queue_data \/ (o.queue_data_on_resume /\ l.count > 0)

\* exec 1360, 1382: an export is due.
export_due(l, c) == ~is_handshaking(c) /\ ~l.sent_exporter

\* exec 1400: the key update is due.
key_update_always(o, l, c) == o.send_key_update

key_update_due(o, l, c) ==
    o.send_key_update /\ ~l.sent_key_update /\ ~is_handshaking(c)

\* exec 1405: the test message is due after the handshake, one byte of its
\* record going out.
one_byte_due(o, l, c) ==
    ~is_handshaking(c) /\ o.only_write_one_byte_after_handshake /\ ~l.sent_message

\* exec 1526: close-notify is due.
close_notify_due(o, l, c) ==
    o.shut_down_after_handshake /\ ~l.sent_shutdown /\ ~is_handshaking(c)

FreshTrace(c) ==
    [phases |-> <<c.hs>>, bad |-> NoOffender, pnpErr |-> None, queued |-> <<>>,
     steps |-> <<>>, edRead |-> 0, readLog |-> <<>>, start |-> c, fed |-> <<>>,
     ended |-> None, arrivals |-> <<>>, shots |-> NoShots,
     taken |-> <<>>, echo |-> <<>>]

\* after_read: process_new_packets on what was read, and what the properties
\* keep of it.
AfterReadTrace(tr, c) ==
    LET n == ProcessNewPackets(c)
    IN  [tr EXCEPT !.phases = PhasesOf(@, c),
                   !.bad = IF @ = NoOffender THEN FirstOffender(c) ELSE @,
                   !.pnpErr = n.err,
                   !.arrivals = @ \o Arrivals(c),
                   !.queued = IF n.err # None THEN n.outq ELSE @]

\* exec, from the top of the loop to the first read: the test message is
\* queued (once) and the queued TLS data is flushed.  With
\* queue_early_data_after_received_messages set, the flush and the
\* read_n_bytes calls come first.
\* `len` is how much of the message
\* the early-data writer accepts.
ExecTop(len) ==
    /\ pc \in {"top", "queued"}
    /\ LET queue == queue_message(opts, loc)
           reads == queue /\ pc = "top" /\ opts.queue_early # <<>>
           early == queue /\ ~reads /\ loc.count > 0 /\ opts.enable_early_data
           writes == /\ queue /\ ~reads
                     /\ early \/ ~opts.only_write_one_byte_after_handshake
           s1 == IF early
                 THEN WriterWrite(early_data_write(sess, HelloUpTo(len)),
                                  HelloFrom(len))
                 ELSE IF writes THEN WriterWrite(sess, Hello) ELSE sess
           tr == [trace EXCEPT !.shots = Shot(@, "message", writes)]
       IN  IF early /\ ~early_data_available(sess)
           THEN \* early_data().expect("0rtt not available")
                /\ exit' = Panicked
                /\ pc' = "done"
                /\ UNCHANGED <<sess, conn, loc, trace>>
           ELSE IF (reads \/ ~loc.quench_writes) /\ FlushFails(s1, conn)
           THEN /\ exit' = quit(None)
                /\ pc' = "done"
                /\ sess' = s1
                /\ trace' = tr
                /\ UNCHANGED <<conn, loc>>
           ELSE /\ sess' = IF reads \/ ~loc.quench_writes THEN FlushedSess(s1) ELSE s1
                /\ conn' = IF reads \/ ~loc.quench_writes
                           THEN FlushedConn(s1, conn) ELSE conn
                /\ loc' = IF reads THEN [loc EXCEPT !.i = 1]
                          ELSE IF writes THEN [loc EXCEPT !.sent_message = TRUE]
                          ELSE loc
                /\ pc' = IF reads THEN "read_n"
                         ELSE IF wants_read(sess') THEN "read" ELSE "post"
                /\ trace' = IF reads THEN [tr EXCEPT !.start = sess', !.fed = <<>>]
                            ELSE tr
                /\ UNCHANGED exit
    /\ UNCHANGED <<opts, peer, cacheVars>>

\* What a read of the transport gives the engine: nothing new on a reset
\* connection (the error is ignored), else `count` cells, none at EOF.
ReadInto(c, k, count) ==
    IF k.reset THEN c ELSE ReadTls(c, Take(k.inb, count))

ReadBlocks(k) == k.inb = <<>> /\ ~k.peerEof /\ ~k.reset

\* read_all_bytes: one read_tls from the transport, then after_read.
ReadAllBytes(count) ==
    /\ pc = "read"
    /\ ~ReadBlocks(conn)
    /\ count = Len(conn.inb)
    /\ LET c1 == ReadInto(sess, conn, count)
           n == ProcessNewPackets(c1)
       IN  /\ sess' = n
           /\ conn' = [conn EXCEPT !.inb = IF conn.reset THEN @ ELSE Drop(@, count)]
           /\ trace' = AfterReadTrace(trace, c1)
           /\ loc' = [loc EXCEPT !.key_log = Logged(@, sess, n)]
           /\ pc' = IF n.err # None THEN "err_flush" ELSE "post"
    /\ UNCHANGED <<opts, exit, peer, cacheVars>>

read_n_bytes_skip_short(c, k, n, count) ==
    IF count < n THEN c ELSE ReadInto(c, k, count)

\* read_n_bytes up to after_read: conn.read(&mut bytes[..n]) gave `count`
\* bytes, which go to read_tls.
read_n_bytes(c, k, n, count) == ReadInto(c, k, count)

\* read_n_bytes(n) for the next entry of
\* queue_early_data_after_received_messages.
ReadNBytes(count) ==
    /\ pc = "read_n"
    /\ ~ReadBlocks(conn)
    /\ LET n == opts.queue_early[loc.i]
           c1 == read_n_bytes(sess, conn, n, count)
           p == ProcessNewPackets(c1)
       IN  /\ count \in 0..Min(n, Len(conn.inb))
           /\ (count = 0) = (conn.inb = <<>>)
           /\ sess' = p
           /\ conn' = [conn EXCEPT !.inb = IF conn.reset THEN @ ELSE Drop(@, count)]
           /\ trace' = [AfterReadTrace(trace, c1) EXCEPT
                            !.fed = IF conn.reset THEN @ ELSE @ \o Take(conn.inb, count)]
           /\ loc' = [loc EXCEPT !.i = @ + 1, !.key_log = Logged(@, sess, p)]
           /\ pc' = IF p.err # None THEN "err_flush"
                    ELSE IF loc.i < Len(opts.queue_early) THEN "read_n" ELSE "queued"
    /\ UNCHANGED <<opts, exit, peer, cacheVars>>

\* after_read's failure path, first step: flush (send any alerts).
ErrFlush ==
    /\ pc = "err_flush"
    /\ IF FlushFails(sess, conn)
       THEN /\ exit' = quit(None)
            /\ pc' = "done"
            /\ UNCHANGED <<sess, conn, trace>>
       ELSE /\ sess' = FlushedSess(sess)
            /\ conn' = FlushedConn(sess, conn)
            /\ trace' = [trace EXCEPT !.steps = Append(@, "flush")]
            /\ pc' = "err_shutdown"
            /\ UNCHANGED exit
    /\ UNCHANGED <<opts, loc, peer, cacheVars>>

\* orderly_close: shutdown(Write).unwrap(); on a reset connection the call
\* may fail, and unwrap panics.
ErrShutdown(ok) ==
    /\ pc = "err_shutdown"
    /\ ok \in (IF conn.reset THEN BOOLEAN ELSE {TRUE})
    /\ IF ok
       THEN /\ conn' = [conn EXCEPT !.wshut = TRUE]
            /\ trace' = [trace EXCEPT !.steps = Append(@, "shutdown_write")]
            /\ pc' = "err_drain"
            /\ UNCHANGED exit
       ELSE /\ exit' = Panicked
            /\ pc' = "done"
            /\ UNCHANGED <<conn, trace>>
    /\ UNCHANGED <<opts, sess, loc, peer, cacheVars>>

\* orderly_close: wait for EOF, reading what the peer still sends.
ErrDrain ==
    /\ pc = "err_drain"
    /\ ~ReadBlocks(conn)
    /\ conn' = [conn EXCEPT !.inb = <<>>,
                            !.rshut = conn.inb = <<>> \/ conn.reset]
    /\ IF conn.inb = <<>> \/ conn.reset
       THEN /\ trace' = [trace EXCEPT !.steps = Append(@, "drained")]
            /\ pc' = "err_report"
       ELSE UNCHANGED <<trace, pc>>
    /\ UNCHANGED <<opts, sess, loc, exit, peer, cacheVars>>

\* handle_err(opts, err)
HandleErr ==
    /\ pc = "err_report"
    /\ exit' = handle_err(opts, sess.err)
    /\ trace' = [trace EXCEPT !.steps = Append(@, "handle_err")]
    /\ pc' = "done"
    /\ UNCHANGED <<opts, sess, conn, loc, peer, cacheVars>>


exec_read_confused(o, r) ==
    IF r = "zero" /\ o.check_close_notify THEN quit_err(":CLOSE_WITHOUT_CLOSE_NOTIFY:")
    ELSE Returned

\* exec, the match on reader().read(): how the run ends when the reader has
\* no more plaintext to give (r is "zero" or "UnexpectedEof").
exec_read_end(o, r) ==
    IF r = "zero" THEN Returned
    ELSE IF o.check_close_notify THEN quit_err(":CLOSE_WITHOUT_CLOSE_NOTIFY:")
    ELSE Returned

\* exec 1361-1378: the exported keying material, of the length asked for.
ExportedKeyingMaterial(o) == <<[n |-> o.export_keying_material, b |-> 0]>>

\* exec 1414-1418: write_tls into a cursor of one byte, and that byte written
\* to the transport: the first byte of the oldest queued record, or the zero
\* the array held when nothing is queued.
StrayByte == [typ |-> "Stray", msg |-> "zero", epoch |-> 0, seq |-> 0, data |-> <<>>]

one_byte_write(c, k) ==
    IF c.outq = <<>> THEN [k EXCEPT !.wire = Append(@, StrayByte)]
    ELSE [k EXCEPT !.partial = 1]

\* exec, from after the read of the transport to the end of the loop body:
\* early data is echoed, the key update requested (once), the plaintext
\* read and echoed, close-notify sent (once).
ExecPost ==
    /\ pc = "post"
    /\ LET early == opts.side = "Server" /\ opts.enable_early_data
           ed == IF early THEN sess.edBuf ELSE <<>>
           s1 == IF early
                 THEN WriterWrite([sess EXCEPT !.edBuf = <<>>], echo_of(ed)) ELSE sess
           ekm == export_due(loc, s1) /\ opts.export_keying_material > 0
           sk == IF ekm THEN WriterWrite(s1, ExportedKeyingMaterial(opts)) ELSE s1
           export == /\ export_due(loc, sk) /\ ~ekm
                     /\ opts.export_traffic_secrets
           uneven == /\ export
                     /\ loc.key_log.client_traffic_secret.n
                            # loc.key_log.server_traffic_secret.n
           sx == IF export THEN WriterWrite(sk, ExportedSecrets(loc.key_log)) ELSE sk
           update == key_update_due(opts, loc, sx)
           s2 == IF update THEN refresh_traffic_keys(sx) ELSE sx
           one == s2.err = None /\ ~uneven /\ one_byte_due(opts, loc, s2)
           sh == FlushedSess(s2)
           s2h == IF one THEN WriterWrite(sh, Hello) ELSE s2
           k2 == IF one THEN one_byte_write(s2h, FlushedConn(s2, conn)) ELSE conn
           chk == early_data_check(opts, s2h, loc.count)
           r == ReaderResult(s2h)
           got == IF r = "data" THEN TakeBytes(s2h.plainIn, opts.read_size) ELSE <<>>
           s3 == [s2h EXCEPT !.plainIn = DropBytes(@, opts.read_size)]
           shut == close_notify_due(opts, loc, s3)
           s4 == IF shut THEN send_close_notify(s3) ELSE s3
           s5 == WriterWrite(s4, echo_of(got))
           l2 == [loc EXCEPT !.sent_key_update = @ \/ update,
                             !.sent_exporter = @ \/ ekm \/ export]
           l3 == [l2 EXCEPT !.sent_message = @ \/ one,
                            !.quench_writes = @ \/ one]
           sh2 == [Shot(Shot(trace.shots, "export", ekm \/ export),
                        "key_update", update)
                      EXCEPT !.handshaking = \/ @
                                             \/ (ekm \/ export) /\ is_handshaking(s1)
                                             \/ update /\ is_handshaking(sx)]
           tr == [trace EXCEPT !.edRead = @ + SumN(ed),
                               !.phases = Visit(@, s2),
                               !.shots = sh2,
                               !.taken = @ \o ed,
                               !.echo = @ \o echo_of(ed)]
           tr3 == [tr EXCEPT !.shots = Shot(@, "message", one)]
       IN  IF s2.err # None \/ uneven
           THEN \* assert_eq!, write_all(..).unwrap(), refresh_traffic_keys().unwrap()
                /\ exit' = Panicked
                /\ pc' = "done"
                /\ sess' = s2
                /\ loc' = loc
                /\ trace' = tr
                /\ UNCHANGED conn
           ELSE IF one /\ FlushFails(s2, conn)
           THEN \* flush
                /\ exit' = quit(None)
                /\ pc' = "done"
                /\ sess' = s2
                /\ loc' = l2
                /\ trace' = tr
                /\ UNCHANGED conn
           ELSE IF one /\ (s2h.err # None \/ conn.reset)
           THEN \* write_all(b"hello").unwrap(), conn.write_all(..).expect("IO error")
                /\ exit' = Panicked
                /\ pc' = "done"
                /\ sess' = s2h
                /\ conn' = FlushedConn(s2, conn)
                /\ loc' = l3
                /\ trace' = tr3
           ELSE IF chk # Running
           THEN /\ exit' = chk
                /\ pc' = "done"
                /\ sess' = s2h
                /\ conn' = k2
                /\ loc' = l3
                /\ trace' = tr3
           ELSE IF r \in {"zero", "UnexpectedEof"}
           THEN /\ exit' = exec_read_end(opts, r)
                /\ pc' = "done"
                /\ sess' = s2h
                /\ conn' = k2
                /\ loc' = l3
                /\ trace' = [tr3 EXCEPT !.ended = r]
           ELSE /\ sess' = s5
                /\ conn' = k2
                /\ loc' = [l3 EXCEPT !.sent_shutdown = @ \/ shut,
                                     !.quench_writes = @ /\ got = <<>>]
                /\ trace' = [tr3 EXCEPT
                                 !.readLog = @ \o got,
                                 !.taken = @ \o got,
                                 !.echo = @ \o echo_of(got),
                                 !.phases = Visit(tr.phases, s5),
                                 !.shots = [Shot(@, "shutdown", shut) EXCEPT
                                               !.handshaking =
                                                   @ \/ (shut /\ is_handshaking(s3))]]
                /\ IF s5.err # None
                   THEN \* write_all(&buf[..len]).unwrap()
                        exit' = Panicked /\ pc' = "done"
                   ELSE pc' = "top" /\ UNCHANGED exit
    /\ UNCHANGED <<opts, peer, cacheVars>>

(***************************************************************************)
(* The peer and the transport.                                             *)
(***************************************************************************)
\* The sizes of the application-data and early-data records the peer sends.
DataSizes == {1, 7168, 14336}

Templates ==
    [typ : {"Handshake"},
     msg : {"ClientHello", "ClientHelloEarly", "ServerHello", "Certificate",
            "CertificateVerify", "EndOfEarlyData", "Finished", "KeyUpdate",
            "KeyUpdateRequested"},
     data : {<<>>}, prot : {"live"}]
    \cup [typ : {"ApplicationData"}, msg : {"data"},
          data : {<<[n |-> k, b |-> 7]>> : k \in DataSizes}, prot : {"live", "old"}]
    \cup [typ : {"Alert"}, msg : {"close_notify", "handshake_failure"},
          data : {<<>>}, prot : {"live"}]

\* The peer's write keys after it has sent a handshake message.
PeerAfter(p, msg) ==
    CASE msg \in {"ClientHello", "ServerHello", "EndOfEarlyData"} ->
            [p EXCEPT !.wepoch = HandshakeEpoch, !.wseq = 0]
      [] msg = "ClientHelloEarly" ->
            [p EXCEPT !.wepoch = IF opts.enable_early_data THEN EarlyDataEpoch
                                 ELSE HandshakeEpoch,
                      !.wseq = 0]
      [] msg = "Finished" -> [p EXCEPT !.wepoch = ApplicationEpoch, !.wseq = 0]
      [] HsType(msg) = "KeyUpdate" /\ p.wepoch >= ApplicationEpoch ->
            [p EXCEPT !.wepoch = @ + 1, !.wseq = 0, !.kus = @ + 1]
      [] OTHER -> [p EXCEPT !.wseq = @ + 1]

\* In flight towards the shim: at most two records.
MaxInFlightCells == 6
\* Records the peer still sends after the connection has failed.
MaxLateRecords == 1

\* Plaintext the peer seals under a key it has replaced: other bytes than
\* what it sends under the live key.
Stale(chunks) == [i \in DOMAIN chunks |-> [chunks[i] EXCEPT !.b = 9]]

\* The peer sends one record, sealed under its live write key or (after a
\* key update) once more under the key of the generation before.
PeerSend(t) ==
    /\ pc # "done"
    /\ ~conn.peerEof /\ ~conn.reset
    /\ peer.sent < MaxPeerRecords
    /\ peer.wseq < SeqMod
    /\ sess.err # None => peer.late < MaxLateRecords
    /\ Len(conn.inb) + 3 <= MaxInFlightCells
    /\ t.prot = "old" => peer.wepoch > ApplicationEpoch
    /\ HsType(t.msg) = "KeyUpdate" /\ peer.wepoch >= ApplicationEpoch
           => peer.kus < MaxPeerKeyUpdates
    /\ LET rec == [typ |-> t.typ, msg |-> t.msg, pad |-> 0,
                   data |-> IF t.prot = "old" THEN Stale(t.data) ELSE t.data,
                   epoch |-> IF t.prot = "old" THEN peer.wepoch - 1 ELSE peer.wepoch,
                   seq |-> IF t.prot = "old" THEN 0 ELSE peer.wseq]
           p == [peer EXCEPT !.sent = @ + 1,
                             !.late = IF sess.err # None THEN @ + 1 ELSE @,
                             !.step = IF t.typ = "Handshake" /\ HsType(t.msg) # "KeyUpdate"
                                      THEN @ + 1 ELSE @]
       IN  /\ conn' = [conn EXCEPT !.inb = @ \o Encode(rec)]
           /\ peer' = IF t.prot = "old" THEN p
                      ELSE IF t.typ = "Handshake" THEN PeerAfter(p, t.msg)
                      ELSE [p EXCEPT !.wseq = @ + 1]
    /\ UNCHANGED <<opts, sess, pc, loc, exit, trace, cacheVars>>

\* The peer closes its sending side: EOF after what is in flight.
PeerClose ==
    /\ pc # "done"
    /\ ~conn.peerEof /\ ~conn.reset
    /\ conn' = [conn EXCEPT !.peerEof = TRUE]
    /\ UNCHANGED <<opts, sess, pc, loc, exit, peer, trace, cacheVars>>

\* The peer resets the connection: reads and writes fail from now on.
PeerReset ==
    /\ pc # "done"
    /\ ~conn.reset
    /\ conn' = [conn EXCEPT !.reset = TRUE, !.inb = <<>>]
    /\ UNCHANGED <<opts, sess, pc, loc, exit, peer, trace, cacheVars>>

\* The handshake messages an honest peer sends, in order.
Script(o) ==
    IF o.side = "Client"
    THEN <<"ServerHello", "Certificate", "CertificateVerify", "Finished">>
    ELSE IF o.enable_early_data
         THEN <<"ClientHelloEarly", "EndOfEarlyData", "Finished">>
         ELSE IF o.verify_peer
              THEN <<"ClientHello", "Certificate", "CertificateVerify", "Finished">>
              ELSE <<"ClientHello", "Finished">>

\* What an honest peer may send next: its handshake messages in order (step
\* counts them), data and key updates once they are all sent, early data
\* under the early-data key.
Honest(t) ==
    LET script == Script(opts)
    IN  CASE t.typ = "Handshake" /\ HsType(t.msg) # "KeyUpdate" ->
                peer.step < Len(script) /\ t.msg = script[peer.step + 1]
          [] t.typ = "Handshake" -> peer.step = Len(script)
          [] t.typ = "ApplicationData" ->
                peer.step = Len(script) \/ peer.wepoch = EarlyDataEpoch
          [] OTHER -> t.msg = "close_notify"

(***************************************************************************)
(* The session stores.  The memory caches behind them and the engine's     *)
(* decision to resume are modelled from spec.md 3 and 4.5; an absent value *)
(* is the empty sequence, a present one a sequence of one element.         *)
(***************************************************************************)
\* The lifetime the server gives its sessions and tickets, in seconds.
SessionLifetime == 2

\* ServerSessionValue::get_encoding and ServerSessionValue::read_bytes.
get_encoding(ssv) == <<ssv.kind, ssv.creation_time_sec, ssv.id>>

read_bytes(bytes) ==
    IF Len(bytes) = 3 /\ bytes[1] \in {"Tls12", "Tls13"}
    THEN <<[kind |-> bytes[1], creation_time_sec |-> bytes[2], id |-> bytes[3]]>>
    ELSE <<>>

\* ServerSessionMemoryCache: the newest CacheSize entries, oldest first.
Without(entries, key) == SelectSeq(entries, LAMBDA e : e.key # key)

storage_put(entries, key, value) ==
    LET all == Append(Without(entries, key), [key |-> key, value |-> value])
    IN  IF Len(all) > CacheSize THEN Tail(all) ELSE all

storage_get(entries, key) ==
    LET hit == SelectSeq(entries, LAMBDA e : e.key = key)
    IN  IF hit = <<>> THEN <<>> ELSE <<hit[1].value>>

storage_take(entries, key) ==
    [found |-> storage_get(entries, key), entries |-> Without(entries, key)]

\* ServerCacheWithResumptionDelay::new
NewServerCache(delay, checked) ==
    [delay |-> delay, checked |-> checked, entries |-> <<>>, panicked |-> FALSE,
     born |-> <<>>, last |-> [op |-> None, key |-> 0, found |-> <<>>],
     offer |-> [found |-> FALSE, age |-> 0, kind |-> None]]

\* ServerCacheWithResumptionDelay::put: creation_time_sec -= delay.  The
\* subtraction is on u64: below zero it panics in a build with overflow
\* checks and wraps in one without.
put(s, key, value) ==
    LET ssv == read_bytes(value)
    IN  IF ssv = <<>> THEN [s EXCEPT !.panicked = TRUE]
        ELSE IF s.delay > ssv[1].creation_time_sec /\ s.checked
        THEN [s EXCEPT !.panicked = TRUE]
        ELSE LET rewound == [ssv[1] EXCEPT !.creation_time_sec =
                                               (@ - s.delay) % TimeMod]
             IN  [s EXCEPT !.entries = storage_put(@, key, get_encoding(rewound))]

\* ServerCacheWithResumptionDelay::get
get(s, key) == storage_get(s.entries, key)

take_and_keep(s, key) == [found |-> storage_get(s.entries, key), entries |-> s.entries]

\* ServerCacheWithResumptionDelay::take
take(s, key) == storage_take(s.entries, key)

\* The server resumes a session it finds unless its age exceeds the lifetime.
CanResume(found, t) ==
    /\ found # <<>>
    /\ read_bytes(found[1]) # <<>>
    /\ t - read_bytes(found[1])[1].creation_time_sec <= SessionLifetime

\* ClientSessionMemoryCache for the one server name the shim connects to:
\* a TLS1.2 session and the newest MaxTickets TLS1.3 tickets.
MaxTickets == 2

NewClientCache(delay) ==
    [delay |-> delay, tls12 |-> <<>>, tickets |-> <<>>, kx |-> <<>>,
     born |-> <<>>, used |-> {},
     last |-> [op |-> None, found |-> <<>>],
     offer |-> [found |-> FALSE, age |-> 0, kind |-> None, group |-> None]]

\* ClientSessionMemoryCache::set_kx_hint and kx_hint of the wrapped store.
storage_set_kx_hint(c, group) == [c EXCEPT !.kx = <<group>>]

storage_kx_hint(c) == c.kx

\* ClientCacheWithoutKxHints::set_kx_hint
set_kx_hint(c, group) == c

\* ClientCacheWithoutKxHints::kx_hint
kx_hint(c) == <<>>

\* The group of the client's first key share: the hint, or without one the
\* client's own first choice.
FirstKeyShare(hint) == IF hint = <<>> THEN "first_configured" ELSE hint[1]

\* Tls12ClientSessionValue::rewind_epoch, Tls13ClientSessionValue::rewind_epoch
rewind_epoch(value, delta) == [value EXCEPT !.epoch = @ - delta]

\* ClientCacheWithoutKxHints::set_tls12_session
set_tls12_session(c, value) ==
    [c EXCEPT !.tls12 = <<rewind_epoch(value, c.delay)>>]

\* ClientCacheWithoutKxHints::tls12_session
tls12_session(c) == c.tls12

\* ClientCacheWithoutKxHints::remove_tls12_session
remove_tls12_session(c) == [c EXCEPT !.tls12 = <<>>]

\* ClientCacheWithoutKxHints::insert_tls13_ticket
insert_tls13_ticket(c, value) ==
    LET all == Append(c.tickets, rewind_epoch(value, c.delay))
    IN  [c EXCEPT !.tickets = IF Len(all) > MaxTickets THEN Tail(all) ELSE all]

\* ClientCacheWithoutKxHints::take_tls13_ticket: the newest ticket, removed.
take_tls13_ticket(c) ==
    IF c.tickets = <<>> THEN [found |-> <<>>, tickets |-> <<>>]
    ELSE [found |-> <<c.tickets[Len(c.tickets)]>>,
          tickets |-> Take(c.tickets, Len(c.tickets) - 1)]

\* The client offers a session or ticket unless it has expired.
HasExpired(value, t) == t - value.epoch > value.lifetime

\* The stores of a process that has made no connection yet.
CacheIdle ==
    /\ srv = NewServerCache(opts.resumption_delay, TRUE)
    /\ cli = NewClientCache(opts.resumption_delay)
    /\ now = StartTime

(***************************************************************************)
(* Spec: one run of exec against a peer that sends any message at any      *)
(* time, correctly protected.                                              *)
(***************************************************************************)
BaseOpts ==
    [side |-> "Server", verify_peer |-> FALSE, check_close_notify |-> FALSE,
     shut_down_after_handshake |-> FALSE, send_key_update |-> FALSE,
     enable_early_data |-> FALSE, ech_config_list |-> FALSE, queue_data |-> FALSE,
     queue_early |-> <<>>, read_size |-> 512, resumption_delay |-> 0,
     protocols |-> <<>>, reject_alpn |-> FALSE, support_tls13 |-> TRUE,
     support_tls12 |-> TRUE, min_version |-> <<>>, max_version |-> <<>>,
     expect_ech_retry_configs |-> <<>>, expect_accept_early_data |-> FALSE,
     expect_reject_early_data |-> FALSE, expect_version |-> 0,
     queue_data_on_resume |-> FALSE, export_traffic_secrets |-> FALSE,
     export_keying_material |-> 0, only_write_one_byte_after_handshake |-> FALSE]

InitRun(optsSet) ==
    /\ opts \in optsSet
    /\ sess = make_session(opts)
    /\ conn = FreshConn
    /\ pc = "top"
    /\ loc = FreshLoc
    /\ exit = Running
    /\ peer = FreshPeer
    /\ trace = FreshTrace(sess)
    /\ CacheIdle

SpecOpts ==
    {[BaseOpts EXCEPT !.side = sd, !.send_key_update = ku, !.check_close_notify = cn,
                      !.shut_down_after_handshake = sh] :
        sd \in {"Client", "Server"}, ku \in BOOLEAN, cn \in BOOLEAN, sh \in BOOLEAN}

Init == InitRun(SpecOpts)

ShimNext ==
    \/ \E len \in 0..Hello[1].n : ExecTop(len)
    \/ \E count \in 0..MaxInFlightCells : ReadAllBytes(count)
    \/ ExecPost
    \/ ErrFlush
    \/ \E ok \in BOOLEAN : ErrShutdown(ok)
    \/ ErrDrain
    \/ HandleErr

AnyOrder(t) ==
    /\ t.prot = "live"
    /\ t.typ = "ApplicationData" => t.data[1].n = 1
    /\ t.msg \notin {"ClientHelloEarly", "EndOfEarlyData", "KeyUpdateRequested"}

Next ==
    \/ ShimNext
    \/ \E t \in Templates : AnyOrder(t) /\ PeerSend(t)
    \/ PeerClose
    \/ PeerReset

Spec == Init /\ [][Next]_vars


(***************************************************************************)
(* Properties of one run of exec.                                          *)
(***************************************************************************)
\* Every record the connection has sealed, in order: what was written to the
\* transport and what is still queued.
SealLog == conn.wire \o sess.outq

OneWay(ph) ==
    \A j \in DOMAIN ph :
        (\E i \in 1..(j - 1) : ph[i] = ph[j]) =>
            \/ ph[j] = "Established" /\ ph[j - 1] = "KeyUpdateInFlight"
            \/ ph[j] = "KeyUpdateInFlight" /\ ph[j - 1] = "Established"

\* No application record was sealed after the close-notify alert.
NothingAfterClose(log) ==
    \A i, j \in DOMAIN log :
        i < j /\ log[i].typ = "Alert" /\ log[i].msg = "close_notify"
            => log[j].typ # "ApplicationData"

C2_Step ==
    /\ trace'.phases[Len(trace'.phases)] = sess'.hs
    /\ OneWay(trace'.phases)
    /\ sess.hs = "Closed" => sess'.hs = "Closed" /\ sess'.sealed = sess.sealed
    /\ NothingAfterClose(conn'.wire \o sess'.outq)

\* C2: the phases advance one way (a phase once left is entered again only on
\* Established -> KeyUpdateInFlight -> Established), Closed is never left, and
\* no application record is sealed once the connection is Closed.
C2_PhasesOneWay == [][C2_Step]_vars

\* C2, reached: the shim updated its keys, the peer's KeyUpdate brought the
\* connection back to Established, and data was echoed under the new keys.
C2_Witness ==
    /\ sess.hs = "Established"
    /\ \E j \in DOMAIN trace.phases :
          /\ j + 2 <= Len(trace.phases)
          /\ trace.phases[j] = "Established"
          /\ trace.phases[j + 1] = "KeyUpdateInFlight"
          /\ trace.phases[j + 2] = "Established"
    /\ \E i \in DOMAIN SealLog :
          SealLog[i].typ = "ApplicationData" /\ SealLog[i].epoch > ApplicationEpoch

\* C2, reached as well: a closed connection whose shim read plaintext and
\* called the writer to echo it.
C2_WitnessClosed ==
    /\ sess.hs = "Closed"
    /\ trace.readLog # <<>>
    /\ \E i \in DOMAIN SealLog : SealLog[i].msg = "close_notify"

\* C8: when process_new_packets fails, all queued TLS data (the alert with
\* it) is written before the write half is shut down, the steps are flush,
\* shutdown-write, drain to EOF, handle_err in this order, and the error is
\* reported for every such failure.
C8_ErrorFlushedAndReported ==
    /\ trace.pnpErr # None /\ conn.wshut =>
          /\ sess.outq = <<>>
          /\ \A i \in DOMAIN trace.queued : \E j \in DOMAIN conn.wire :
                conn.wire[j] = trace.queued[i]
    /\ trace.pnpErr # None /\ pc = "done" =>
          /\ trace.steps = <<"flush", "shutdown_write", "drained", "handle_err">>
          /\ exit = handle_err(opts, trace.pnpErr)

\* The same on a transport that the peer never resets.
C8_OnSoundTransport == ~conn.reset => C8_ErrorFlushedAndReported

\* C9: a run that ends because the reader returned 0 bytes (the peer sent
\* close-notify) ends as a success; one that ends on UnexpectedEof (EOF
\* without close-notify) with check_close_notify ends with
\* :CLOSE_WITHOUT_CLOSE_NOTIFY: and status 1; the two are never confused.
C9_EndOfStreamClassified ==
    /\ trace.ended = "zero" => exit = Returned /\ sess.closeRcvd
    /\ trace.ended = "UnexpectedEof" =>
          /\ ~sess.closeRcvd /\ sess.eofSeen
          /\ exit = IF opts.check_close_notify
                    THEN quit_err(":CLOSE_WITHOUT_CLOSE_NOTIFY:") ELSE Returned
    /\ exit.reason = ":CLOSE_WITHOUT_CLOSE_NOTIFY:" =>
          /\ exit.status = 1
          /\ trace.ended = "UnexpectedEof" /\ opts.check_close_notify

\* C9, reached: EOF without close-notify after the handshake, with the check on.
C9_Witness ==
    /\ exit = quit_err(":CLOSE_WITHOUT_CLOSE_NOTIFY:")
    /\ sess.hsDone
    /\ trace.ended = "UnexpectedEof"

C9_WitnessCloseNotify ==
    /\ exit = Returned /\ trace.ended = "zero" /\ opts.check_close_notify

(***************************************************************************)
(* SpecRec: a server's run of exec against a peer that follows the         *)
(* protocol, sends data and key updates after the handshake, and may seal  *)
(* data under a key it has already replaced.                               *)
(***************************************************************************)
RecOpts ==
    {[BaseOpts EXCEPT !.send_key_update = ku, !.queue_data = qd] :
        ku \in BOOLEAN, qd \in BOOLEAN}

InitRec == InitRun(RecOpts)

HonestRec(t) ==
    /\ Honest(t)
    /\ t.typ = "ApplicationData" => t.data[1].n = 1

NextRec ==
    \/ ShimNext
    \/ \E t \in Templates : HonestRec(t) /\ PeerSend(t)
    \/ PeerClose

SpecRec == InitRec /\ [][NextRec]_vars

\* The records the connection has opened, in order.
OpenedLog == SelectSeq(trace.arrivals, LAMBDA a : a.opened)

NoRepeat(log) ==
    \A i, j \in DOMAIN log :
        i < j => <<log[i].epoch, log[i].seq>> # <<log[j].epoch, log[j].seq>>

\* C3: under one key and direction no two records are sealed, or opened, with
\* the same sequence number; the write counter never passes the bound, and a
\* seal at the bound fails (EncryptError) and leaves the connection unable
\* to seal, without a record under a used or out-of-bound number.
C3_SequenceNeverRepeats ==
    /\ NoRepeat(SealLog)
    /\ NoRepeat(OpenedLog)
    /\ sess.wseq <= SeqHardLimit
    /\ \A i \in DOMAIN SealLog : SealLog[i].seq < SeqHardLimit
    /\ \A i \in DOMAIN OpenedLog : OpenedLog[i].seq < SeqHardLimit
    /\ sess.err = "EncryptError" => sess.wseq = SeqHardLimit /\ ~MaySeal(sess)

\* C3, reached: the write counter stood at the bound and the seal failed.
C3_Witness ==
    /\ sess.err = "EncryptError"
    /\ \E i \in DOMAIN SealLog :
          SealLog[i].epoch = sess.wepoch /\ SealLog[i].seq = SeqHardLimit - 1

IsKeyUpdate(r) == r.typ = "Handshake" /\ HsType(r.msg) = "KeyUpdate"

\* In a log of records of one direction: the epochs never go back, the record
\* after a KeyUpdate is under the next generation, and the generation changes
\* nowhere else.
UpdatedAfterKeyUpdate(log) ==
    /\ \A i, j \in DOMAIN log : i < j => log[i].epoch <= log[j].epoch
    /\ \A i \in DOMAIN log : i + 1 \in DOMAIN log =>
          /\ IsKeyUpdate(log[i]) => log[i + 1].epoch = log[i].epoch + 1
          /\ log[i].epoch >= ApplicationEpoch /\ log[i + 1].epoch > log[i].epoch
                => IsKeyUpdate(log[i])

HasByte(chunks, b) == \E i \in DOMAIN chunks : chunks[i].b = b

\* C4: outbound records are under generation N+1 strictly after the outbound
\* KeyUpdate, inbound ones strictly after the inbound KeyUpdate; a record
\* under a generation already left is not opened, fails the connection with
\* DecryptError (reported as a decryption failure), and its plaintext is
\* never delivered or echoed.
C4_KeyUpdateBoundary ==
    /\ UpdatedAfterKeyUpdate(SealLog)
    /\ UpdatedAfterKeyUpdate(OpenedLog)
    /\ \A i \in DOMAIN trace.arrivals :
          trace.arrivals[i].epoch < trace.arrivals[i].repoch =>
              /\ ~trace.arrivals[i].opened
              /\ i = Len(trace.arrivals)
              /\ sess.err = "DecryptError"
              /\ "handle_err" \in Range(trace.steps) =>
                    exit = IF opts.ech_config_list
                           THEN quit(":INCONSISTENT_ECH_NEGOTIATION:")
                           ELSE quit(":DECRYPTION_FAILED_OR_BAD_RECORD_MAC:")
    /\ ~HasByte(sess.plainIn, 9) /\ ~HasByte(trace.readLog, 9)
    /\ \A i \in DOMAIN SealLog : ~HasByte(SealLog[i].data, 255 - 9)

\* C4, reached: the server updated its keys, the peer answered with its
\* KeyUpdate, and a record of the peer under its old key was reported.
C4_Witness ==
    /\ loc.sent_key_update
    /\ \E i \in DOMAIN OpenedLog : IsKeyUpdate(OpenedLog[i])
    /\ \E i \in DOMAIN SealLog : SealLog[i].epoch > ApplicationEpoch
    /\ \E i \in DOMAIN trace.arrivals :
          trace.arrivals[i].epoch < trace.arrivals[i].repoch
    /\ exit = quit(":DECRYPTION_FAILED_OR_BAD_RECORD_MAC:")

(***************************************************************************)
(* SpecEarly: a server with early data enabled, and a client that sends    *)
(* early data before it ends its handshake.                                *)
(***************************************************************************)
EarlyOpts == {[BaseOpts EXCEPT !.enable_early_data = TRUE]}

InitEarly == InitRun(EarlyOpts)

HonestEarly(t) ==
    /\ Honest(t)
    /\ t.prot = "live"
    /\ HsType(t.msg) # "KeyUpdate"
    /\ t.typ = "ApplicationData" /\ peer.wepoch # EarlyDataEpoch => t.data[1].n = 1

NextEarly ==
    \/ ShimNext
    \/ \E t \in Templates : HonestEarly(t) /\ PeerSend(t)
    \/ PeerClose

SpecEarly == InitEarly /\ [][NextEarly]_vars

RECURSIVE EarlyBytes(_)
\* The early-data bytes that have arrived in opened records.
EarlyBytes(log) ==
    IF log = <<>> THEN 0
    ELSE (IF /\ Head(log).typ = "ApplicationData"
             /\ Head(log).repoch = EarlyDataEpoch
             /\ Head(log).opened
          THEN Head(log).n ELSE 0) + EarlyBytes(Tail(log))

\* C7: the early-data bytes delivered to the server's early-data reader on
\* one connection (read by the shim, or waiting to be read) never exceed
\* 14336, and a client whose early data goes beyond 14336 bytes makes the
\* server fail with TooMuchEarlyDataReceived, reported as
\* :TOO_MUCH_READ_EARLY_DATA:.
C7_EarlyDataBudget ==
    /\ trace.edRead + SumN(sess.edBuf) <= 14336
    /\ EarlyBytes(trace.arrivals) <= 14336 =>
          trace.edRead + SumN(sess.edBuf) = EarlyBytes(trace.arrivals)
    /\ EarlyBytes(trace.arrivals) > 14336 =>
          /\ sess.err = "TooMuchEarlyDataReceived"
          /\ "handle_err" \in Range(trace.steps) =>
                exit = quit(":TOO_MUCH_READ_EARLY_DATA:")

\* C7, reached: the whole budget was delivered and read, and one byte more
\* was reported.
C7_Witness ==
    /\ trace.edRead = 14336
    /\ EarlyBytes(trace.arrivals) = 14336 + 1
    /\ exit = quit(":TOO_MUCH_READ_EARLY_DATA:")

(***************************************************************************)
(* SpecChunk: a server started with -on-resume-early-write-after-message:  *)
(* the inbound stream is on the transport and exec takes it in with        *)
(* read_n_bytes, each read giving as many bytes as the transport chooses.  *)
(***************************************************************************)
Wire(typ, msg, epoch, data, pad) ==
    [typ |-> typ, msg |-> msg, epoch |-> epoch, seq |-> 0, data |-> data, pad |-> pad]

\* What the peer has put on the transport: a ClientHello, then a Finished
\* or something that is not due, then data or close-notify.
ChunkStreams ==
    {EncodeAll(<<a, b, c>>) :
        a \in {Wire("Handshake", "ClientHello", PlaintextEpoch, <<>>, pad) : pad \in 0..1},
        b \in {Wire("Handshake", "Finished", HandshakeEpoch, <<>>, 0),
               Wire("Handshake", "Certificate", HandshakeEpoch, <<>>, 1),
               Wire("Garbage", "Finished", HandshakeEpoch, <<>>, 0),
               Wire("Handshake", "Finished", PlaintextEpoch, <<>>, 0)},
        c \in {Wire("ApplicationData", "data", ApplicationEpoch, <<[n |-> 1, b |-> 7]>>, 0),
               Wire("Alert", "close_notify", ApplicationEpoch, <<>>, 1)}}

ChunkOpts ==
    {[BaseOpts EXCEPT !.queue_data = TRUE, !.queue_early = [i \in 1..ChunkReads |-> n]] :
        n \in {1, MaxChunk}}

InitChunk ==
    /\ opts \in ChunkOpts
    /\ sess = make_session(opts)
    /\ \E stream \in ChunkStreams : conn = [FreshConn EXCEPT !.inb = stream]
    /\ pc = "top"
    /\ loc = FreshLoc
    /\ exit = Running
    /\ peer = [FreshPeer EXCEPT !.sent = MaxPeerRecords]
    /\ trace = FreshTrace(sess)
    /\ CacheIdle

NextChunk ==
    \/ ShimNext
    \/ \E count \in 0..MaxChunk : ReadNBytes(count)
    \/ PeerClose

SpecChunk == InitChunk /\ [][NextChunk]_vars

\* The connection that took in one piece all the bytes the read_n_bytes
\* calls have taken so far.
InOnePiece(tr) ==
    IF tr.fed = <<>> THEN tr.start ELSE ReadTls(tr.start, tr.fed)

SameButEof(c, d) == [c EXCEPT !.eofSeen = FALSE] = [d EXCEPT !.eofSeen = FALSE]

C10_Step ==
    /\ /\ pc' \in {"read_n", "queued"} \/ (pc = "read_n" /\ pc' = "err_flush")
       /\ loc'.i > 1
       =>
          /\ SameButEof(sess', ProcessNewPackets(InOnePiece(trace')))
          /\ trace'.phases = PhasesOf(<<trace'.start.hs>>, InOnePiece(trace'))
          /\ trace'.pnpErr = ProcessNewPackets(InOnePiece(trace')).err
          /\ trace'.arrivals = Arrivals(InOnePiece(trace'))
    /\ /\ pc = "read_n"
       /\ Len(trace'.fed) > Len(trace.fed)
       /\ Deframe(sess'.dbuf) = "partial"
       /\ Len(trace'.arrivals) = Len(trace.arrivals)
       => /\ sess'.err = None /\ pc' # "err_flush"
          /\ sess'.hs = sess.hs /\ sess'.plainIn = sess.plainIn
          /\ trace'.phases = trace.phases

\* C10: however the reads cut the inbound stream (down to one byte a read),
\* the handshake-state changes, the delivered plaintext and the error are
\* those of the stream taken in one piece; a read that ends inside a record
\* reports no error and leaves the state machine where it was, and the next
\* read goes on from there.
C10_ChunkingEquivalent == [][C10_Step]_vars

\* C10, reached: a stream of records of 4, 3 and 3 bytes was taken in four
\* reads of at most MaxChunk bytes, the handshake completed and the data
\* was delivered.
C10_Witness ==
    /\ pc = "queued"
    /\ opts.queue_early[1] = MaxChunk
    /\ Len(trace.fed) = 10 /\ trace.fed[2].l = 2
    /\ sess.hs = "Established"
    /\ sess.plainIn # <<>>

(***************************************************************************)
(* SpecCache: the session stores of one process over its connections.      *)
(* The server stores the sessions it issues and looks up those a client    *)
(* offers; the client stores what a server sends and offers it again.      *)
(***************************************************************************)
CacheOpts ==
    {[BaseOpts EXCEPT !.side = sd, !.resumption_delay = d] :
        sd \in {"Client", "Server"}, d \in 0..MaxDelay}

InitCache ==
    /\ opts \in CacheOpts
    /\ sess = make_session(opts)
    /\ conn = FreshConn
    /\ pc = "top"
    /\ loc = FreshLoc
    /\ exit = Running
    /\ peer = FreshPeer
    /\ trace = FreshTrace(sess)
    /\ \E checked \in BOOLEAN : srv = NewServerCache(opts.resumption_delay, checked)
    /\ cli = NewClientCache(opts.resumption_delay)
    /\ now = StartTime

\* The server issues a session (TLS1.2) or a ticket (TLS1.3) at the end of
\* a handshake and stores it: put.
ServerIssue(key, kind) ==
    /\ opts.side = "Server" /\ exit = Running
    /\ Len(srv.born) < MaxIds
    /\ LET value == get_encoding([kind |-> kind, creation_time_sec |-> now,
                                  id |-> Len(srv.born) + 1])
           s == put(srv, key, value)
       IN  /\ srv' = [s EXCEPT !.born = Append(@, now),
                               !.last = [op |-> "put", key |-> key, found |-> <<>>]]
           /\ exit' = IF s.panicked THEN Panicked ELSE exit
    /\ UNCHANGED <<opts, sess, conn, pc, loc, peer, trace, cli, now>>

\* A client offers the session stored under `key`: the server looks it up
\* with get (TLS1.2 session id) or take (TLS1.3 ticket) and resumes or not.
ServerAccept(key, kind) ==
    /\ opts.side = "Server" /\ exit = Running
    /\ LET t == IF kind = "Tls13" THEN take(srv, key)
                ELSE [found |-> get(srv, key), entries |-> srv.entries]
           ssv == read_bytes(t.found[1])[1]
       IN  srv' = [srv EXCEPT
                !.entries = t.entries,
                !.last = [op |-> IF kind = "Tls13" THEN "take" ELSE "get",
                          key |-> key, found |-> t.found],
                !.offer = IF t.found = <<>>
                          THEN [found |-> FALSE, age |-> 0, kind |-> "Full"]
                          ELSE [found |-> TRUE,
                                age |-> now - srv.born[ssv.id] + srv.delay,
                                kind |-> IF CanResume(t.found, now)
                                         THEN "Resumed" ELSE "Full"]]
    /\ UNCHANGED <<opts, sess, conn, pc, loc, exit, peer, trace, cli, now>>

\* A second passes.
Tick ==
    /\ exit = Running
    /\ now < MaxNow
    /\ now' = now + 1
    /\ UNCHANGED <<connVars, srv, cli>>

\* The client stores what the server sent at the end of a handshake.
ClientStore(kind) ==
    /\ opts.side = "Client" /\ exit = Running
    /\ Len(cli.born) < MaxIds
    /\ LET value == [id |-> Len(cli.born) + 1, epoch |-> now,
                     lifetime |-> SessionLifetime]
           c == IF kind = "Tls13" THEN insert_tls13_ticket(cli, value)
                ELSE set_tls12_session(cli, value)
       IN  cli' = [c EXCEPT !.born = Append(@, now),
                            !.last = [op |-> "store", found |-> <<>>]]
    /\ UNCHANGED <<connVars, srv, now>>

\* The client connects: it takes a ticket, or else looks up its TLS1.2
\* session, offers what has not expired, and the server accepts it or not.
ClientConnect(accepts) ==
    /\ opts.side = "Client" /\ exit = Running
    /\ LET t == take_tls13_ticket(cli)
           found == IF t.found # <<>> THEN t.found ELSE tls12_session(cli)
       IN  cli' = [cli EXCEPT
                !.tickets = t.tickets,
                !.used = IF t.found # <<>> THEN @ \cup {t.found[1].id} ELSE @,
                !.last = [op |-> IF t.found # <<>> THEN "take_tls13_ticket"
                                 ELSE "tls12_session",
                          found |-> found],
                !.offer = IF found = <<>>
                          THEN [found |-> FALSE, age |-> 0, kind |-> "Full",
                                group |-> FirstKeyShare(kx_hint(cli))]
                          ELSE [found |-> TRUE,
                                age |-> now - cli.born[found[1].id] + cli.delay,
                                kind |-> IF ~HasExpired(found[1], now) /\ accepts
                                         THEN "Resumed" ELSE "Full",
                                group |-> FirstKeyShare(kx_hint(cli))]]
    /\ UNCHANGED <<connVars, srv, now>>

\* The engine notes the group the server chose, at the end of a handshake.
ClientSetKxHint(group) ==
    /\ opts.side = "Client" /\ exit = Running
    /\ cli' = [set_kx_hint(cli, group) EXCEPT
                    !.last = [op |-> "set_kx_hint", found |-> <<group>>]]
    /\ UNCHANGED <<connVars, srv, now>>

\* The engine drops the TLS1.2 session.
ClientRemove ==
    /\ opts.side = "Client" /\ exit = Running
    /\ cli.tls12 # <<>>
    /\ cli' = [remove_tls12_session(cli) EXCEPT !.last = [op |-> "remove", found |-> <<>>]]
    /\ UNCHANGED <<connVars, srv, now>>

NamedGroups == {"X25519", "secp256r1"}

NextCache ==
    \/ \E key \in 1..MaxKeys, kind \in {"Tls12", "Tls13"} : ServerIssue(key, kind)
    \/ \E key \in 1..MaxKeys, kind \in {"Tls12", "Tls13"} : ServerAccept(key, kind)
    \/ Tick
    \/ \E kind \in {"Tls12", "Tls13"} : ClientStore(kind)
    \/ \E accepts \in BOOLEAN : ClientConnect(accepts)
    \/ ClientRemove
    \/ \E group \in NamedGroups : ClientSetKxHint(group)

SpecCache == InitCache /\ [][NextCache]_vars

\* C5: a session or ticket whose age, with the creation time rewound by
\* resumption_delay, exceeds the lifetime is never resumed: the connection
\* that offers it completes as a full handshake, on the server store and on
\* the client store, for TLS1.2 sessions and TLS1.3 tickets.
C5_ExpiredNeverResumed ==
    /\ srv.offer.found /\ srv.offer.age > SessionLifetime => srv.offer.kind = "Full"
    /\ cli.offer.found /\ cli.offer.age > SessionLifetime => cli.offer.kind = "Full"

\* The same for the sessions whose subtraction in put did not go below zero.
C5_WithoutUnderflow ==
    (\A i \in DOMAIN srv.born : srv.delay <= srv.born[i]) => C5_ExpiredNeverResumed

\* C6: after take has returned the value stored under a key, get and take
\* return nothing for that key until it is put again, while a value that get
\* has returned is still there; a ticket that take_tls13_ticket has returned
\* is not in the client store any more.
C6_TakeIsSingleUse ==
    /\ srv.last.op = "take" /\ srv.last.found # <<>> =>
          /\ get(srv, srv.last.key) = <<>>
          /\ take(srv, srv.last.key).found = <<>>
    /\ srv.last.op = "get" /\ srv.last.found # <<>> =>
          /\ get(srv, srv.last.key) = srv.last.found
          /\ take(srv, srv.last.key).found = srv.last.found
    /\ \A i \in DOMAIN cli.tickets : cli.tickets[i].id \notin cli.used
    /\ cli.last.op = "take_tls13_ticket" =>
          \A i \in DOMAIN cli.tickets : cli.tickets[i] # cli.last.found[1]
    /\ cli.last.op = "tls12_session" /\ cli.last.found # <<>> =>
          tls12_session(cli) = cli.last.found

\* C6, reached: a take that returned the second session the server stored.
C6_Witness ==
    /\ srv.last.op = "take" /\ srv.last.found # <<>>
    /\ read_bytes(srv.last.found[1])[1].id = 2

(***************************************************************************)
(* SpecCred: the client credentials of one process.  main reads the        *)
(* credential flags, make_client_cfg builds the resolver from them, and    *)
(* the engine calls resolve with the issuer hints and signature schemes of *)
(* the server's CertificateRequest (kept in `peer`).  `sess` holds the     *)
(* resolver once it is built, `trace` what resolve returned.               *)
(***************************************************************************)
\* Additional credentials given on the command line.
MaxAdditional == 2

\* The credential files of the run: the schemes each private key can sign
\* with (in the key's own order) and the issuer of each certificate.
CredentialFiles == {"rsa_a", "ec_b"}

KeySchemes(file) ==
    IF file = "rsa_a" THEN <<"RSA_PSS_SHA256", "RSA_PKCS1_SHA256">>
    ELSE <<"ECDSA_NISTP256_SHA256">>

IssuerOf(file) == IF file = "rsa_a" THEN "issuer_a" ELSE "issuer_b"

\* Credential::default() and Credentials::default()
Credential_default ==
    [key_file |-> "", cert_file |-> "", use_signing_scheme |-> <<>>,
     must_match_issuer |-> FALSE]

Credentials_default ==
    [default |-> Credential_default, additional |-> <<>>, expect_selected |-> <<>>]

\* Credentials::last_mut: the last additional credential, or the default one.
last_mut(creds) ==
    IF creds.additional = <<>> THEN creds.default
    ELSE creds.additional[Len(creds.additional)]

\* An assignment through the reference last_mut returns.
SetLast(creds, cred) ==
    IF creds.additional = <<>>
    THEN [creds EXCEPT !.default = cred]
    ELSE [creds EXCEPT !.additional[Len(creds.additional)] = cred]

\* Credential::configured, Credentials::configured
configured(cred) == cred.cert_file # "" /\ cred.key_file # ""

credentials_configured(creds) ==
    configured(creds.default)
        \/ \E i \in DOMAIN creds.additional : configured(creds.additional[i])

\* Credential::load_from_file: the files are there to be read.
Loads(cred) == cred.cert_file \in CredentialFiles /\ cred.key_file \in CredentialFiles

\* lookup_scheme, for the codes the run uses (an unknown code exits with
\* BOGO_NACK before any connection is made).
lookup_scheme_with_ed448(scheme) ==
    CASE scheme = 1025 -> "RSA_PKCS1_SHA256"
      [] scheme = 1281 -> "RSA_PKCS1_SHA384"
      [] scheme = 1537 -> "RSA_PKCS1_SHA512"
      [] scheme = 1027 -> "ECDSA_NISTP256_SHA256"
      [] scheme = 1283 -> "ECDSA_NISTP384_SHA384"
      [] scheme = 1539 -> "ECDSA_NISTP521_SHA512"
      [] scheme = 2052 -> "RSA_PSS_SHA256"
      [] scheme = 2053 -> "RSA_PSS_SHA384"
      [] scheme = 2054 -> "RSA_PSS_SHA512"
      [] scheme = 2055 -> "ED25519"
      [] scheme = 2056 -> "ED448"
      [] OTHER -> None

lookup_scheme(scheme) ==
    CASE scheme = 1025 -> "RSA_PKCS1_SHA256"
      [] scheme = 1281 -> "RSA_PKCS1_SHA384"
      [] scheme = 1537 -> "RSA_PKCS1_SHA512"
      [] scheme = 1027 -> "ECDSA_NISTP256_SHA256"
      [] scheme = 1283 -> "ECDSA_NISTP384_SHA384"
      [] scheme = 1539 -> "ECDSA_NISTP521_SHA512"
      [] scheme = 2052 -> "RSA_PSS_SHA256"
      [] scheme = 2053 -> "RSA_PSS_SHA384"
      [] scheme = 2054 -> "RSA_PSS_SHA512"
      [] scheme = 2055 -> "ED25519"
      [] OTHER -> None

\* SigningKey::choose_scheme of a private key: the first of its schemes that
\* is offered.
SigningKey_choose_scheme(schemes, offered) ==
    LET usable == SelectSeq(schemes, LAMBDA s : \E i \in DOMAIN offered : offered[i] = s)
    IN  IF usable = <<>> THEN <<>> ELSE <<usable[1]>>

\* choose_scheme of certkey.key: the key itself, or the key behind a
\* FixedSignatureSchemeSigningKey.
choose_scheme(key, offered) ==
    IF key.fixed = <<>> THEN SigningKey_choose_scheme(key.schemes, offered)
    ELSE IF \E i \in DOMAIN offered : offered[i] = key.fixed[1]
         THEN SigningKey_choose_scheme(key.schemes, <<key.fixed[1]>>)
         ELSE SigningKey_choose_scheme(key.schemes, <<>>)

\* ClientCert::new
ClientCert_new(cred) ==
    [certkey |-> [file |-> cred.cert_file,
                  key |-> [schemes |-> KeySchemes(cred.key_file),
                           fixed |-> IF cred.use_signing_scheme = <<>> THEN <<>>
                                     ELSE <<lookup_scheme(cred.use_signing_scheme[1])>>]],
     issuer_dn |-> IssuerOf(cred.cert_file),
     must_match_issuer |-> cred.must_match_issuer]

\* make_client_cfg: the MultipleClientCredentialResolver of the configured
\* credentials.
NewResolver(creds) ==
    [additional |-> [i \in DOMAIN creds.additional |-> ClientCert_new(creds.additional[i])],
     default |-> IF configured(creds.default) THEN <<ClientCert_new(creds.default)>>
                 ELSE <<>>,
     expect_selected |-> creds.expect_selected]

\* resolve, the test of one additional credential for one scheme.
IssuerAllows(cert, root_hint_subjects) ==
    ~(cert.must_match_issuer
        /\ ~\E k \in DOMAIN root_hint_subjects : root_hint_subjects[k] = cert.issuer_dn)

RECURSIVE FirstForScheme(_, _, _, _)
\* resolve, the inner loop: the first additional credential from position i
\* on that passes its issuer constraint and can sign with sig_scheme (0: none).
FirstForScheme(r, root_hint_subjects, sig_scheme, i) ==
    IF i > Len(r.additional) THEN 0
    ELSE IF /\ IssuerAllows(r.additional[i], root_hint_subjects)
            /\ choose_scheme(r.additional[i].certkey.key, <<sig_scheme>>) # <<>>
         THEN i
         ELSE FirstForScheme(r, root_hint_subjects, sig_scheme, i + 1)

RECURSIVE FirstAdditional(_, _, _, _)
\* resolve, the outer loop over sig_schemes from position p on.
FirstAdditional(r, root_hint_subjects, sig_schemes, p) ==
    IF p > Len(sig_schemes) THEN 0
    ELSE LET i == FirstForScheme(r, root_hint_subjects, sig_schemes[p], 1)
         IN  IF i # 0 THEN i
             ELSE FirstAdditional(r, root_hint_subjects, sig_schemes, p + 1)

RECURSIVE FirstByIndex(_, _, _, _)
FirstByIndex(r, root_hint_subjects, sig_schemes, i) ==
    IF i > Len(r.additional) THEN 0
    ELSE IF /\ IssuerAllows(r.additional[i], root_hint_subjects)
            /\ choose_scheme(r.additional[i].certkey.key, sig_schemes) # <<>>
         THEN i
         ELSE FirstByIndex(r, root_hint_subjects, sig_schemes, i + 1)

resolve_by_index(r, root_hint_subjects, sig_schemes) ==
    LET i == FirstByIndex(r, root_hint_subjects, sig_schemes, 1)
    IN  IF i # 0 THEN [exit |-> Running, selected |-> <<i - 1>>]
        ELSE [exit |-> quit(":NO_COMMON_SIGNATURE_ALGORITHMS:"), selected |-> <<>>]

resolve_default_first(r, root_hint_subjects, sig_schemes) ==
    IF r.default # <<>> /\ choose_scheme(r.default[1].certkey.key, sig_schemes) # <<>>
    THEN [exit |-> Running, selected |-> <<-1>>]
    ELSE resolve_by_index(r, root_hint_subjects, sig_schemes)

\* MultipleClientCredentialResolver::resolve: the credential it returns
\* (its index in `additional`, -1 for the default), or how the process ends.
resolve(r, root_hint_subjects, sig_schemes) ==
    LET i == FirstAdditional(r, root_hint_subjects, sig_schemes, 1)
        all_must_match_issuer ==
            /\ \A k \in DOMAIN r.additional : r.additional[k].must_match_issuer
            /\ \A k \in DOMAIN r.default : r.default[k].must_match_issuer
    IN  IF i # 0
        THEN IF r.expect_selected = <<i - 1>> \/ r.expect_selected = <<>>
             THEN [exit |-> Running, selected |-> <<i - 1>>]
             ELSE [exit |-> Panicked, selected |-> <<>>]
        ELSE IF /\ r.default # <<>>
                /\ choose_scheme(r.default[1].certkey.key, sig_schemes) # <<>>
        THEN IF r.expect_selected \in {<<-1>>, <<>>}
             THEN [exit |-> Running, selected |-> <<-1>>]
             ELSE [exit |-> Panicked, selected |-> <<>>]
        ELSE IF r.expect_selected # <<>>
        THEN [exit |-> Panicked, selected |-> <<>>]
        ELSE [exit |-> quit(IF all_must_match_issuer THEN ":NO_MATCHING_ISSUER:"
                            ELSE ":NO_COMMON_SIGNATURE_ALGORITHMS:"),
              selected |-> <<>>]

\* main: "-new-x509-credential"
ArgNewX509Credential ==
    /\ pc = "args"
    /\ Len(opts.credentials.additional) < MaxAdditional
    /\ opts' = [opts EXCEPT !.credentials.additional = Append(@, Credential_default)]
    /\ UNCHANGED <<sess, conn, pc, loc, exit, peer, trace, cacheVars>>

\* main: "-cert-file" and "-key-file", which name the two files of one
\* credential.
ArgCertAndKeyFile(file) ==
    /\ pc = "args"
    /\ opts' = [opts EXCEPT !.credentials =
                    SetLast(@, [last_mut(@) EXCEPT !.cert_file = file,
                                                     !.key_file = file])]
    /\ UNCHANGED <<sess, conn, pc, loc, exit, peer, trace, cacheVars>>

\* main: "-signing-prefs"
ArgSigningPrefs(alg) ==
    /\ pc = "args"
    /\ opts' = [opts EXCEPT !.credentials =
                    SetLast(@, [last_mut(@) EXCEPT !.use_signing_scheme = <<alg>>])]
    /\ UNCHANGED <<sess, conn, pc, loc, exit, peer, trace, cacheVars>>

\* main: "-must-match-issuer"
ArgMustMatchIssuer ==
    /\ pc = "args"
    /\ opts' = [opts EXCEPT !.credentials =
                    SetLast(@, [last_mut(@) EXCEPT !.must_match_issuer = TRUE])]
    /\ UNCHANGED <<sess, conn, pc, loc, exit, peer, trace, cacheVars>>

\* main: "-expect-selected-credential"
ArgExpectSelected(n) ==
    /\ pc = "args"
    /\ opts' = [opts EXCEPT !.credentials.expect_selected = <<n>>]
    /\ UNCHANGED <<sess, conn, pc, loc, exit, peer, trace, cacheVars>>

\* make_client_cfg: with credentials configured the resolver is built (a
\* credential whose files do not load panics), without them the client has
\* no client authentication.
MakeClientCfg ==
    /\ pc = "args"
    /\ LET creds == opts.credentials
           loads == /\ configured(creds.default) => Loads(creds.default)
                    /\ \A i \in DOMAIN creds.additional : Loads(creds.additional[i])
       IN  IF ~credentials_configured(creds)
           THEN pc' = "no_client_auth" /\ UNCHANGED <<sess, exit>>
           ELSE IF ~loads
           THEN pc' = "done" /\ exit' = Panicked /\ UNCHANGED sess
           ELSE pc' = "resolve" /\ sess' = NewResolver(creds) /\ UNCHANGED exit
    /\ UNCHANGED <<opts, conn, loc, peer, trace, cacheVars>>

\* The server asks for a certificate: the engine calls resolve with the issuer
\* hints and the signature schemes of the CertificateRequest.
Resolve(root_hint_subjects, sig_schemes) ==
    /\ pc = "resolve"
    /\ LET res == resolve(sess, root_hint_subjects, sig_schemes)
       IN  /\ trace' = [selected |-> res.selected, called |-> TRUE]
           /\ exit' = res.exit
           /\ pc' = IF res.exit = Running THEN "resolved" ELSE "done"
    /\ peer' = [root_hint_subjects |-> root_hint_subjects, sig_schemes |-> sig_schemes]
    /\ UNCHANGED <<opts, sess, conn, loc, cacheVars>>

\* What a server may send in its CertificateRequest.
IssuerHints == {<<>>, <<"issuer_a">>, <<"issuer_b">>, <<"issuer_b", "issuer_a">>}

SchemeLists ==
    {<<>>, <<"RSA_PSS_SHA256">>, <<"ECDSA_NISTP256_SHA256">>,
     <<"RSA_PKCS1_SHA256", "RSA_PSS_SHA256">>,
     <<"ECDSA_NISTP256_SHA256", "RSA_PSS_SHA256">>,
     <<"RSA_PKCS1_SHA256", "ECDSA_NISTP256_SHA256">>}

CredOpts == [side |-> "Client", credentials |-> Credentials_default]

InitCred ==
    /\ opts = CredOpts
    /\ sess = None
    /\ conn = FreshConn
    /\ pc = "args"
    /\ loc = FreshLoc
    /\ exit = Running
    /\ peer = [root_hint_subjects |-> <<>>, sig_schemes |-> <<>>]
    /\ trace = [selected |-> <<>>, called |-> FALSE]
    /\ srv = None /\ cli = None /\ now = StartTime

NextCred ==
    \/ ArgNewX509Credential
    \/ \E file \in CredentialFiles : ArgCertAndKeyFile(file)
    \/ ArgSigningPrefs(2052)
    \/ ArgMustMatchIssuer
    \/ \E n \in -1..(MaxAdditional - 1) : ArgExpectSelected(n)
    \/ MakeClientCfg
    \/ \E h \in IssuerHints, s \in SchemeLists : Resolve(h, s)

SpecCred == InitCred /\ [][NextCred]_vars

\* An additional credential that passes its issuer constraint and can sign
\* with the scheme.
Eligible(cert, scheme) ==
    /\ cert.must_match_issuer => cert.issuer_dn \in Range(peer.root_hint_subjects)
    /\ choose_scheme(cert.certkey.key, <<scheme>>) # <<>>

\* Positions in sig_schemes for which some additional credential is eligible.
EligiblePositions ==
    {p \in DOMAIN peer.sig_schemes :
        \E i \in DOMAIN sess.additional : Eligible(sess.additional[i], peer.sig_schemes[p])}

Resolved == trace.called

\* C13: among the additional credentials that pass their issuer constraint,
\* resolve returns one that can sign with the earliest scheme of sig_schemes
\* any of them supports, and of those the one with the lowest index; unless
\* expect_selected names another credential, in which case the process
\* aborts.
C13_SchemePreferenceOrder ==
    Resolved /\ EligiblePositions # {} =>
        LET p == CHOOSE q \in EligiblePositions : \A x \in EligiblePositions : q <= x
            js == {i \in DOMAIN sess.additional :
                      Eligible(sess.additional[i], peer.sig_schemes[p])}
            j == CHOOSE i \in js : \A x \in js : i <= x
        IN  \/ trace.selected = <<j - 1>> /\ exit = Running
            \/ /\ exit = Panicked /\ trace.selected = <<>>
               /\ sess.expect_selected \notin {<<>>, <<j - 1>>}

\* C13, reached: the second credential was returned for the scheme listed
\* first, although the first credential can sign with the scheme listed second.
C13_Witness ==
    /\ pc = "resolved" /\ trace.selected = <<1>>
    /\ Len(peer.sig_schemes) = 2
    /\ Eligible(sess.additional[1], peer.sig_schemes[2])
    /\ Eligible(sess.additional[2], peer.sig_schemes[1])

\* The credential resolve returned.
Returned_cert ==
    IF trace.selected = <<-1>> THEN sess.default[1]
    ELSE sess.additional[trace.selected[1] + 1]

\* C14: a credential with must_match_issuer is returned only if its issuer
\* is one of the issuer hints of the peer; the default credential included.
C14_IssuerConstraintHonoured ==
    Resolved /\ trace.selected # <<>> /\ Returned_cert.must_match_issuer =>
        Returned_cert.issuer_dn \in Range(peer.root_hint_subjects)

\* The same for the additional credentials alone.
C14_AdditionalOnly ==
    Resolved /\ trace.selected # <<>> /\ trace.selected # <<-1>>
             /\ Returned_cert.must_match_issuer =>
        Returned_cert.issuer_dn \in Range(peer.root_hint_subjects)

\* All credentials of the resolver.
AllCerts == sess.additional \o sess.default

\* C15: with one credential, must_match_issuer set, and issuer hints that
\* name only another issuer, no credential is selected and the run ends with
\* :NO_MATCHING_ISSUER:, whether the credential is the default one or an
\* additional one and although it can sign with an advertised scheme.
C15_SingleCredentialNoMatchingIssuer ==
    /\ Resolved /\ Len(AllCerts) = 1 /\ sess.expect_selected = <<>>
    /\ AllCerts[1].must_match_issuer
    /\ peer.root_hint_subjects # <<>>
    /\ AllCerts[1].issuer_dn \notin Range(peer.root_hint_subjects)
    => trace.selected = <<>> /\ exit = quit(":NO_MATCHING_ISSUER:")

\* The same for a credential configured as an additional one.
C15_AdditionalOnly ==
    Resolved /\ sess.default = <<>> => C15_SingleCredentialNoMatchingIssuer

\* Credentials whose issuer constraint excluded them.
ExcludedByIssuer ==
    {i \in DOMAIN AllCerts :
        /\ AllCerts[i].must_match_issuer
        /\ AllCerts[i].issuer_dn \notin Range(peer.root_hint_subjects)}

SupportsAdvertised(cert) == choose_scheme(cert.certkey.key, peer.sig_schemes) # <<>>

\* C16: the reason names the constraint that failed: :NO_MATCHING_ISSUER:
\* only when some credential was excluded by its issuer constraint, and
\* :NO_COMMON_SIGNATURE_ALGORITHMS: when no issuer constraint excluded a
\* credential and no credential supports an advertised scheme.
C16_ReasonNamesFailedConstraint ==
    Resolved =>
        /\ exit = quit(":NO_MATCHING_ISSUER:") => ExcludedByIssuer # {}
        /\ /\ trace.selected = <<>> /\ exit.kind = "exited"
           /\ ExcludedByIssuer = {}
           /\ \A i \in DOMAIN AllCerts : ~SupportsAdvertised(AllCerts[i])
           => exit = quit(":NO_COMMON_SIGNATURE_ALGORITHMS:")

\* C17: the default credential is returned only when no additional
\* credential is eligible for any scheme of sig_schemes, and then exactly
\* when its key can sign with a scheme of the list; a returned credential is
\* the one expect_selected names, or the process aborts.
C17_DefaultLast ==
    Resolved =>
        /\ trace.selected = <<-1>> => EligiblePositions = {}
        /\ EligiblePositions = {} /\ sess.default # <<>> =>
              LET signs == \E p \in DOMAIN peer.sig_schemes :
                              peer.sig_schemes[p] \in
                                  Range(IF sess.default[1].certkey.key.fixed = <<>>
                                        THEN sess.default[1].certkey.key.schemes
                                        ELSE SelectSeq(sess.default[1].certkey.key.schemes,
                                                 LAMBDA x : x = sess.default[1].certkey.key.fixed[1]))
              IN  IF signs
                  THEN \/ trace.selected = <<-1>> /\ exit = Running
                       \/ /\ exit = Panicked /\ trace.selected = <<>>
                          /\ sess.expect_selected \notin {<<>>, <<-1>>}
                  ELSE /\ trace.selected = <<>>
                       /\ exit.kind = "exited" \/ sess.expect_selected # <<>>
        /\ trace.selected # <<>> =>
              sess.expect_selected \in {<<>>, trace.selected}
        /\ sess.expect_selected # <<>> /\ trace.selected # sess.expect_selected =>
              exit = Panicked

\* C17, reached: the default credential was returned, expected, while an
\* additional credential that can sign was excluded by its issuer.
C17_Witness ==
    /\ pc = "resolved" /\ trace.selected = <<-1>> /\ sess.expect_selected = <<-1>>
    /\ sess.additional # <<>>
    /\ \E i \in DOMAIN sess.additional : SupportsAdvertised(sess.additional[i])

(***************************************************************************)
(* SpecDecomp: the certificate decompressors the shim installs.  The       *)
(* engine hands decompress the compressed certificate message and an       *)
(* output buffer of the length the peer declared; `trace` holds the call   *)
(* and what came of it.                                                    *)
(***************************************************************************)
\* Longest payload of a compressed message, and longest output buffer.
MaxPayload == 2
MaxOutput == 6

\* The result of a decompress call: Ok(()) or Err(DecompressionFailed), with
\* the output buffer as the call leaves it.
DecompressionFailed(output) == [ok |-> FALSE, output |-> output]
DecompressOk(output) == [ok |-> TRUE, output |-> output]

ShrinkingAlgorithm_writes_first(input, output) ==
    IF Len(output) # Len(input) + 2
    THEN DecompressionFailed([i \in DOMAIN output |-> IF i <= 2 THEN 0 ELSE output[i]])
    ELSE DecompressOk(<<0, 0>> \o input)

\* ShrinkingAlgorithm::decompress (algorithm 0xff01)
ShrinkingAlgorithm_decompress(input, output) ==
    IF Len(output) # Len(input) + 2 THEN DecompressionFailed(output)
    ELSE LET first == [i \in DOMAIN output |-> IF i <= 2 THEN 0 ELSE output[i]]
         IN  DecompressOk([i \in DOMAIN first |-> IF i > 2 THEN input[i - 2] ELSE first[i]])

\* ExpandingAlgorithm::decompress (algorithm 0xff02)
ExpandingAlgorithm_decompress(input, output) ==
    IF Len(output) + 4 # Len(input) THEN DecompressionFailed(output)
    ELSE IF Take(input, 4) # <<1, 2, 3, 4>> THEN DecompressionFailed(output)
    ELSE DecompressOk([i \in DOMAIN output |-> input[i + 4]])

\* RandomAlgorithm::decompress (algorithm 0xff03)
RandomAlgorithm_decompress(input, output) ==
    IF Len(output) + 1 # Len(input) THEN DecompressionFailed(output)
    ELSE DecompressOk([i \in DOMAIN output |-> input[i + 1]])

\* make_server_cfg / make_client_cfg: cfg.cert_decompressors, by algorithm code.
cert_decompressors(o) ==
    CASE o.install_cert_compression_algs = "All" -> {65282, 65281, 65283}
      [] o.install_cert_compression_algs = "One" -> {65281}
      [] OTHER -> {}

\* The decompressor with the given algorithm code.
decompress(alg, input, output) ==
    CASE alg = 65281 -> ShrinkingAlgorithm_decompress(input, output)
      [] alg = 65282 -> ExpandingAlgorithm_decompress(input, output)
      [] OTHER -> RandomAlgorithm_decompress(input, output)

\* Compressed messages a peer may send.
CompressedInputs ==
    {head \o tail :
        head \in {<<>>, <<1, 2, 3, 4>>, <<1, 2, 3, 5>>, <<0, 0>>, <<9>>},
        tail \in UNION {[1..n -> {5, 6}] : n \in 0..MaxPayload}}

\* Output buffers the engine may allocate: the declared length, not yet
\* written (every byte 7).
OutputBuffers == {[i \in 1..n |-> 7] : n \in 0..MaxOutput}

InitDecomp ==
    /\ opts \in {[side |-> sd, install_cert_compression_algs |-> a] :
                    sd \in {"Client", "Server"}, a \in {"All", "One", "None"}}
    /\ sess = None
    /\ conn = FreshConn
    /\ pc = "cert"
    /\ loc = FreshLoc
    /\ exit = Running
    /\ peer = None
    /\ trace = [alg |-> 0, input |-> <<>>, output |-> <<>>, result |-> None]
    /\ srv = None /\ cli = None /\ now = StartTime

\* A compressed certificate message arrives: the engine calls the installed
\* decompressor of its algorithm.
Decompress(alg, input, output) ==
    /\ pc = "cert"
    /\ alg \in cert_decompressors(opts)
    /\ trace' = [alg |-> alg, input |-> input, output |-> output,
                 result |-> decompress(alg, input, output)]
    /\ pc' = "decompressed"
    /\ UNCHANGED <<opts, sess, conn, loc, exit, peer, cacheVars>>

NextDecomp ==
    \E alg \in {65281, 65282, 65283}, input \in CompressedInputs, output \in OutputBuffers :
        Decompress(alg, input, output)

SpecDecomp == InitDecomp /\ [][NextDecomp]_vars

\* What a compressed message expands to under each algorithm (the inverse of
\* its compress), when it is one the algorithm produces.
Expansion(alg, input) ==
    CASE alg = 65281 -> <<<<0, 0>> \o input>>
      [] alg = 65282 ->
            IF Len(input) >= 4 /\ Take(input, 4) = <<1, 2, 3, 4>>
            THEN <<Drop(input, 4)>> ELSE <<>>
      [] OTHER -> IF Len(input) >= 1 THEN <<Drop(input, 1)>> ELSE <<>>

\* C18: for each installed decompressor, decompress fails with
\* DecompressionFailed whenever the length of the output buffer differs from
\* the length the input expands to, and every failure leaves the output
\* buffer exactly as it was; a call that succeeds has written the expansion.
C18_DecompressLengthChecked ==
    pc = "decompressed" =>
        LET exp == Expansion(trace.alg, trace.input)
        IN  /\ exp = <<>> \/ Len(exp[1]) # Len(trace.output) => ~trace.result.ok
            /\ ~trace.result.ok => trace.result.output = trace.output
            /\ trace.result.ok => trace.result.output = exp[1]

\* C18, reached: a well-formed input of the expanding algorithm met an output
\* buffer one byte too long, and the buffer was left alone.
C18_Witness ==
    /\ pc = "decompressed" /\ trace.alg = 65282
    /\ Len(trace.input) > 4
    /\ Take(trace.input, 4) = <<1, 2, 3, 4>>
    /\ Len(trace.output) = Len(trace.input) - 4 + 1
    /\ ~trace.result.ok /\ trace.result.output = trace.output

C18_WitnessShrinking ==
    /\ pc = "decompressed" /\ trace.alg = 65281
    /\ Len(trace.output) >= 2 /\ Len(trace.output) # Len(trace.input) + 2
    /\ ~trace.result.ok

(***************************************************************************)
(* SpecNeg: one run of exec against a peer that negotiates.  The peer is   *)
(* another engine: it answers what the shim has put on the wire, offers or *)
(* selects among its own versions and ALPN protocols, and as a server      *)
(* decides on ECH and on early data.                                       *)
(***************************************************************************)
AlpnLists == {<<>>, <<"h2", "http/1.1">>, <<"http/1.1", "h2">>, <<"h3">>}

VersionFlags ==
    {[BaseOpts EXCEPT !.support_tls12 = t12, !.support_tls13 = t13, !.max_version = mx] :
        t12 \in BOOLEAN, t13 \in BOOLEAN, mx \in {<<>>, <<771>>}}

\* The runs of the ALPN, version, ECH and early-data scenarios: the options
\* of the shim, the count exec is called with, the ticket a client resumes
\* with, and the configuration of the peer.
AlpnRuns ==
    {[o |-> [BaseOpts EXCEPT !.side = sd, !.protocols = ps, !.reject_alpn = rj],
      count |-> 0, ticket |-> "none",
      p |-> [DefaultPeerConfig EXCEPT !.alpn = pa]] :
        sd \in {"Client", "Server"}, ps \in AlpnLists, rj \in BOOLEAN, pa \in AlpnLists}

VersionRuns ==
    {[o |-> [vf EXCEPT !.side = sd], count |-> 0, ticket |-> "none",
      p |-> [DefaultPeerConfig EXCEPT !.versions = pv]] :
        sd \in {"Client", "Server"}, vf \in VersionFlags, pv \in {{771}, {772}, {771, 772}}}

EchRuns ==
    {[o |-> [BaseOpts EXCEPT !.side = "Client", !.ech_config_list = TRUE,
                             !.expect_ech_retry_configs = ex],
      count |-> 0, ticket |-> "none",
      p |-> [DefaultPeerConfig EXCEPT !.versions = {772}, !.ech_accepted = acc,
                                      !.retry_configs = rc]] :
        ex \in {<<>>} \cup {<<r>> : r \in EchRetryConfigs},
        acc \in BOOLEAN,
        rc \in {<<>>} \cup {<<r>> : r \in EchRetryConfigs}}

EarlyRuns ==
    {[o |-> [BaseOpts EXCEPT !.side = "Client", !.enable_early_data = TRUE,
                             !.expect_accept_early_data = ea,
                             !.expect_reject_early_data = er,
                             !.expect_version = ev,
                             !.queue_data_on_resume = qr],
      count |-> k, ticket |-> tk,
      p |-> [DefaultPeerConfig EXCEPT !.versions = pv, !.early_data = acc]] :
        ea \in BOOLEAN, er \in BOOLEAN, ev \in {0, 772}, qr \in BOOLEAN,
        k \in 0..MaxCount, tk \in {"none", "plain", "early"},
        pv \in {{771}, {772}}, acc \in BOOLEAN}

ExportRuns ==
    {[o |-> [BaseOpts EXCEPT !.side = sd, !.export_traffic_secrets = TRUE],
      count |-> k, ticket |-> IF k = 0 THEN "none" ELSE "plain",
      p |-> [DefaultPeerConfig EXCEPT !.versions = pv]] :
        sd \in {"Client", "Server"}, k \in 0..MaxCount, pv \in {{771}, {772}}}

\* What the memo of the run may hold when a later connection starts: nothing,
\* or the secrets of the connection before.
EarlierMemos ==
    {KeyLogMemo_default,
     [client_traffic_secret |-> [n |-> 48, b |-> 21],
      server_traffic_secret |-> [n |-> 48, b |-> 22]]}

NegRuns ==
    {r \in AlpnRuns \cup VersionRuns \cup EchRuns \cup EarlyRuns \cup ExportRuns :
        /\ supported_versions(r.o) # <<>>
        /\ r.count = 0 => r.ticket = "none"}

\* make_session for connection `count` of the run: the client's store holds
\* the ticket of the connection before.
InitNeg ==
    /\ \E r \in NegRuns :
          /\ opts = r.o
          /\ sess = [make_session(r.o) EXCEPT !.ticket = r.ticket]
          /\ \E memo \in (IF r.count > 0 /\ r.o.export_traffic_secrets
                           THEN EarlierMemos ELSE {KeyLogMemo_default}) :
                loc = [FreshLoc EXCEPT !.count = r.count, !.key_log = memo]
          /\ peer = [FreshPeer EXCEPT !.cfg = r.p]
    /\ conn = FreshConn
    /\ pc = "top"
    /\ exit = Running
    /\ trace = FreshTrace(sess)
    /\ CacheIdle

\* What the shim has written to the transport, by message.
OnWire(msg) == \E i \in DOMAIN conn.wire : conn.wire[i].msg = msg
AlertOnWire == \E i \in DOMAIN conn.wire : conn.wire[i].typ = "Alert"

\* The peer as a client: the extensions of its ClientHello.
PeerClientHello == [versions |-> peer.cfg.versions, alpn |-> peer.cfg.alpn]

\* The peer as a server: the version and protocol it selects from what the
\* shim's ClientHello offers, and the alert it refuses the hello with.
PeerVersion == select_version(peer.cfg.versions, sess.cfg.versions)
PeerAlpn ==
    IF AlpnInPlay(peer.cfg.alpn, sess.cfg.alpn_protocols)
    THEN select_alpn(peer.cfg.alpn, sess.cfg.alpn_protocols) ELSE <<>>
PeerRefusal ==
    IF PeerVersion = <<>> THEN AlertFor("PeerIncompatible")
    ELSE IF AlpnInPlay(peer.cfg.alpn, sess.cfg.alpn_protocols) /\ PeerAlpn = <<>>
    THEN AlertFor("NoApplicationProtocol")
    ELSE None
PeerServerHello ==
    [version |-> PeerVersion[1], alpn |-> PeerAlpn,
     ech_accepted |-> peer.cfg.ech_accepted, retry_configs |-> peer.cfg.retry_configs,
     early_data |-> peer.cfg.early_data /\ EarlyDataOffered(sess) /\ PeerVersion = <<772>>]

\* What the peer may send next.
NegSendable ==
    LET script == Script(opts)
        hs(msg, data) == [typ |-> "Handshake", msg |-> msg, data |-> data, prot |-> "live"]
    IN  IF AlertOnWire \/ sess.err # None THEN {}
        ELSE IF peer.step = Len(script)
        THEN {[typ |-> "ApplicationData", msg |-> "data", data |-> <<[n |-> 1, b |-> 7]>>,
               prot |-> "live"],
              [typ |-> "Alert", msg |-> "close_notify", data |-> <<>>, prot |-> "live"]}
        ELSE IF opts.side = "Server"
        THEN IF peer.step = 0 THEN {hs("ClientHello", HelloData(PeerClientHello))}
             ELSE IF OnWire("ServerFlight") THEN {hs(script[peer.step + 1], <<>>)}
             ELSE {}
        ELSE IF ~OnWire("ClientHello") \/ (peer.step = 0 /\ peer.sent > 0) THEN {}
        ELSE IF peer.step > 0 THEN {hs(script[peer.step + 1], <<>>)}
        ELSE IF PeerRefusal # None
        THEN {[typ |-> "Alert", msg |-> PeerRefusal, data |-> <<>>, prot |-> "live"]}
        ELSE {hs("ServerHello", HelloData(PeerServerHello))}

NegPeerSend == \E t \in NegSendable : PeerSend(t)

NextNeg ==
    \/ ShimNext
    \/ NegPeerSend
    \/ PeerClose

SpecNeg == InitNeg /\ [][NextNeg]_vars

(***************************************************************************)
(* C11: ALPN selection.                                                    *)
(***************************************************************************)
\* The ALPN lists of the server and of the client of the run, the shim's
\* taken from its options.
ServerAlpnList ==
    IF opts.side = "Server"
    THEN (IF opts.reject_alpn THEN <<"invalid">> ELSE opts.protocols)
    ELSE peer.cfg.alpn
ClientAlpnList == IF opts.side = "Server" THEN peer.cfg.alpn ELSE opts.protocols

\* p is the first protocol of the server's list that the client offered.
FirstOfServerList(p) ==
    \E i \in DOMAIN ServerAlpnList :
        /\ ServerAlpnList[i] = p
        /\ p \in Range(ClientAlpnList)
        /\ \A j \in 1..(i - 1) : ServerAlpnList[j] \notin Range(ClientAlpnList)

AlpnOverlap == Range(ServerAlpnList) \cap Range(ClientAlpnList) # {}

\* The shim has opened the peer's hello.
HelloOpened ==
    \E i \in DOMAIN trace.arrivals :
        /\ trace.arrivals[i].opened
        /\ trace.arrivals[i].msg \in {"ClientHello", "ServerHello"}

\* C11: when client and server both configure ALPN protocols, the protocol
\* of the connection is the first one of the server's preference list that
\* the client offered; when the lists have nothing in common the server
\* fails with NoApplicationProtocol (reported as :NO_APPLICATION_PROTOCOL:)
\* and the connection never reaches Established.
C11_AlpnServerPreference ==
    AlpnInPlay(ServerAlpnList, ClientAlpnList) =>
        /\ alpn_protocol(sess) # <<>> => FirstOfServerList(alpn_protocol(sess)[1])
        /\ ~is_handshaking(sess) => alpn_protocol(sess) # <<>>
        /\ AlpnOverlap /\ HelloOpened /\ sess.err = None => alpn_protocol(sess) # <<>>
        /\ ~AlpnOverlap =>
              /\ is_handshaking(sess) /\ sess.hs # "Established"
              /\ opts.side = "Server" /\ HelloOpened =>
                    sess.err = "NoApplicationProtocol"
              /\ opts.side = "Server" /\ "handle_err" \in Range(trace.steps) =>
                    exit = quit(":NO_APPLICATION_PROTOCOL:")
              /\ opts.side = "Client" =>
                    sess.err \in {None, AlertReceived("no_application_protocol")}

\* The server prefers another protocol than the client, and its choice wins.
C11_Witness ==
    /\ opts.side = "Server"
    /\ ~is_handshaking(sess)
    /\ AlpnInPlay(ServerAlpnList, ClientAlpnList)
    /\ alpn_protocol(sess) = <<ServerAlpnList[1]>>
    /\ ClientAlpnList[1] # ServerAlpnList[1]
    /\ ClientAlpnList[1] \in Range(ServerAlpnList)

\* A server that rejects ALPN: the run ends with :NO_APPLICATION_PROTOCOL:.
C11_WitnessNoOverlap ==
    /\ opts.reject_alpn
    /\ opts.side = "Server"
    /\ ClientAlpnList # <<>>
    /\ exit = quit(":NO_APPLICATION_PROTOCOL:")

(***************************************************************************)
(* C12: disjoint version sets.                                             *)
(***************************************************************************)
\* The versions the shim is configured for, read off its flags.
ShimVersions ==
    IF opts.side = "Client" /\ opts.ech_config_list THEN {772}
    ELSE {v \in {771, 772} :
            /\ v = 771 => opts.support_tls12
            /\ v = 772 => opts.support_tls13
            /\ opts.min_version # <<>> => v >= opts.min_version[1]
            /\ opts.max_version # <<>> => v <= opts.max_version[1]}

VersionsDisjoint == ShimVersions \cap peer.cfg.versions = {}

\* The peer has sent (as a client) or received (as a server) the last
\* message of the handshake.
PeerComplete ==
    IF opts.side = "Server" THEN peer.step = Len(Script(opts)) ELSE OnWire("Finished")

\* The alerts that have crossed the connection, in either direction.
AlertsSeen ==
    {conn.wire[i].msg : i \in {j \in DOMAIN conn.wire : conn.wire[j].typ = "Alert"}}
    \cup {trace.arrivals[i].msg :
            i \in {j \in DOMAIN trace.arrivals : trace.arrivals[j].typ = "Alert"}}

\* C12: when the version sets of client and server are disjoint the
\* handshake completes on neither side, and the failure is of the
\* version-mismatch class on both: PeerIncompatible on the side that sees
\* the mismatch, a received protocol_version alert on the other, reported as
\* :INCOMPATIBLE: or :WRONG_VERSION:, never as a decode error.
C12_VersionMismatchClass ==
    VersionsDisjoint =>
        /\ is_handshaking(sess) /\ sess.version = <<>>
        /\ ~PeerComplete
        /\ sess.err \in {None, "PeerIncompatible", AlertReceived("protocol_version")}
        /\ HelloOpened => sess.err = "PeerIncompatible"
        /\ AlertsSeen \subseteq {"protocol_version"}
        /\ "handle_err" \in Range(trace.steps) =>
              exit = IF sess.err = "PeerIncompatible" THEN quit(":INCOMPATIBLE:")
                     ELSE quit(":WRONG_VERSION:")

\* A TLS1.2-only server shim has met a TLS1.3-only client.
C12_Witness ==
    /\ opts.side = "Server"
    /\ ShimVersions = {771} /\ peer.cfg.versions = {772}
    /\ sess.err = "PeerIncompatible"
    /\ exit = quit(":INCOMPATIBLE:")

\* A TLS1.3-only client shim has met a TLS1.2-only server.
C12_WitnessClient ==
    /\ opts.side = "Client"
    /\ ShimVersions = {772} /\ peer.cfg.versions = {771}
    /\ sess.err = AlertReceived("protocol_version")
    /\ exit = quit(":WRONG_VERSION:")

(***************************************************************************)
(* C19: ECH rejection.                                                     *)
(***************************************************************************)
\* The shim offered ECH and the server's answer, which it has read, rejects it.
EchRejectedByServer ==
    /\ opts.side = "Client" /\ opts.ech_config_list
    /\ ~peer.cfg.ech_accepted
    /\ HelloOpened

\* The ClientHello messages the connection has sealed.
ClientHellosSealed ==
    Len(SelectSeq(SealLog, LAMBDA r : r.typ = "Handshake" /\ HsType(r.msg) = "ClientHello"))

\* C19: when the server rejects ECH the client connection fails with
\* RejectedEch carrying exactly the retry configs the server sent (or
\* none); no second ClientHello is sent and the run ends there: with
\* :ECH_REJECTED: when no retry configs were expected or the expected ones
\* equal the surfaced ones, by the failed assertion otherwise.
C19_EchRejectionSurfaced ==
    EchRejectedByServer =>
        /\ is_handshaking(sess)
        /\ sess.err \in {None, RejectedEch(peer.cfg.retry_configs)}
        /\ sess.err # None => retry_configs(sess.err) = peer.cfg.retry_configs
        /\ sess.ech_status = "Rejected"
        /\ ClientHellosSealed = 1
        /\ "handle_err" \in Range(trace.steps) =>
              /\ pc = "done"
              /\ exit = IF opts.expect_ech_retry_configs \in {<<>>, peer.cfg.retry_configs}
                        THEN quit(":ECH_REJECTED:") ELSE Panicked

\* Rejected with retry configs, which are the expected ones.
C19_Witness ==
    /\ EchRejectedByServer
    /\ peer.cfg.retry_configs # <<>>
    /\ opts.expect_ech_retry_configs = peer.cfg.retry_configs
    /\ retry_configs(sess.err) = peer.cfg.retry_configs
    /\ exit = quit(":ECH_REJECTED:")

\* Rejected with other retry configs than the expected ones.
C19_WitnessMismatch ==
    /\ EchRejectedByServer
    /\ peer.cfg.retry_configs # <<>>
    /\ opts.expect_ech_retry_configs \notin {<<>>, peer.cfg.retry_configs}
    /\ exit = Panicked

(***************************************************************************)
(* C20: the early-data verdict on a resumed client connection.             *)
(***************************************************************************)
\* A client shim with early data enabled whose handshake is over.
EarlyDataClientDone ==
    opts.side = "Client" /\ opts.enable_early_data /\ ~is_handshaking(sess)

\* What the server decided about the early data of this connection.
ServerAcceptedEarlyData ==
    peer.cfg.early_data /\ EarlyDataOffered(sess) /\ 772 \in peer.cfg.versions

NotAcceptedMsg == "Early data was not accepted, but we expect the opposite"
AcceptedMsg == "Early data was accepted, but we expect the opposite"

EarlyDataMismatch ==
    \/ opts.expect_accept_early_data /\ ~ServerAcceptedEarlyData
    \/ opts.expect_reject_early_data /\ ServerAcceptedEarlyData

\* C20 as stated: on a resumed client connection with early data enabled
\* whose handshake is over, the run ends with a non-zero status exactly when
\* acceptance was expected and early data was not accepted, or rejection was
\* expected and early data was accepted.
C20_NonZeroExactlyOnMismatch ==
    EarlyDataClientDone /\ loc.count > 0 /\ pc = "done" =>
        (exit.status # 0 <=> EarlyDataMismatch)

\* C20, amended: on a client connection with early data enabled whose
\* handshake is over, is_early_data_accepted() is the server's decision; on
\* a resumed connection (count > 0) the shim leaves the loop at once with
\* status 1 and the message for the mismatch when acceptance was expected
\* but early data was not accepted, or rejection was expected but early data
\* was accepted, else with status 1 and "wrong protocol version" when
\* -expect-version 0x0304 was given and the connection is not TLS1.3, and
\* otherwise goes on; on the first connection (count 0) none of these
\* exits is taken.
C20_EarlyDataVerdict ==
    /\ exit.reason \in {NotAcceptedMsg, AcceptedMsg, "wrong protocol version"} =>
          EarlyDataClientDone /\ loc.count > 0 /\ exit.status = 1
    /\ EarlyDataClientDone =>
          /\ is_early_data_accepted(sess) = ServerAcceptedEarlyData
          /\ loc.count > 0 /\ EarlyDataMismatch => pc \in {"post", "done"}
          /\ loc.count > 0 /\ pc = "done" =>
                exit.reason =
                    IF opts.expect_accept_early_data /\ ~ServerAcceptedEarlyData
                    THEN NotAcceptedMsg
                    ELSE IF opts.expect_reject_early_data /\ ServerAcceptedEarlyData
                    THEN AcceptedMsg
                    ELSE IF opts.expect_version = 772 /\ protocol_version(sess) # <<772>>
                    THEN "wrong protocol version"
                    ELSE None

\* Early data was sent and accepted although rejection was expected.
C20_Witness ==
    /\ EarlyDataClientDone /\ loc.count > 0
    /\ opts.queue_data_on_resume /\ loc.sent_message
    /\ is_early_data_accepted(sess)
    /\ exit = quit_err(AcceptedMsg)

\* Acceptance was expected and the server rejected the early data.
C20_WitnessNotAccepted ==
    /\ EarlyDataClientDone /\ loc.count > 0
    /\ EarlyDataOffered(sess) /\ ~is_early_data_accepted(sess)
    /\ exit = quit_err(NotAcceptedMsg)

\* The first connection: the expectation is not met and the run goes on.
C20_WitnessFirstConnection ==
    /\ EarlyDataClientDone /\ loc.count = 0
    /\ opts.expect_accept_early_data
    /\ pc = "done" /\ exit.status = 0

(***************************************************************************)
(* C21: the KeyLog memo.                                                   *)
(***************************************************************************)
\* How often the engine has called KeyLog::log with a label.
LogCount(label) == Len(SelectSeq(sess.keylog, LAMBDA k : k.label = label))

KeyLogLabels == {sess.keylog[i].label : i \in DOMAIN sess.keylog}

\* The two traffic secrets of this connection.
ThisPair ==
    [client_traffic_secret |-> TrafficSecret("client"),
     server_traffic_secret |-> TrafficSecret("server")]

\* C21 as stated: with the KeyLog installed, no label is logged twice on a
\* connection, and once the handshake is over both traffic secrets of the
\* connection have been logged, with equal lengths, and the memo holds them.
C21_MemoHoldsThisPair ==
    /\ \A l \in KeyLogLabels : LogCount(l) = 1
    /\ opts.export_traffic_secrets /\ ~is_handshaking(sess) =>
          /\ {"CLIENT_TRAFFIC_SECRET_0", "SERVER_TRAFFIC_SECRET_0"} \subseteq KeyLogLabels
          /\ loc.key_log = ThisPair

\* C21, amended: with the KeyLog installed no label is logged twice on a
\* connection; on a TLS1.3 connection both traffic secrets have been logged
\* once the handshake is over, with equal lengths, and the memo read at
\* export time holds them; on a TLS1.2 connection neither label is logged
\* and the memo still holds what it held when the connection started.
C21_MemoHoldsTls13Pair ==
    /\ \A l \in KeyLogLabels : LogCount(l) = 1
    /\ ~opts.export_traffic_secrets => sess.keylog = <<>>
    /\ opts.export_traffic_secrets /\ ~is_handshaking(sess) =>
          IF protocol_version(sess) = <<771>>
          THEN /\ KeyLogLabels \cap {"CLIENT_TRAFFIC_SECRET_0",
                                     "SERVER_TRAFFIC_SECRET_0"} = {}
               /\ loc.key_log \in EarlierMemos
               /\ loc.count = 0 => loc.key_log = KeyLogMemo_default
          ELSE /\ {"CLIENT_TRAFFIC_SECRET_0", "SERVER_TRAFFIC_SECRET_0"}
                      \subseteq KeyLogLabels
               /\ loc.key_log = ThisPair
               /\ loc.key_log.client_traffic_secret.n
                      = loc.key_log.server_traffic_secret.n

\* A later TLS1.3 connection of the run has replaced the secrets of the one
\* before and exported its own.
C21_Witness ==
    /\ opts.export_traffic_secrets /\ ~is_handshaking(sess)
    /\ loc.count > 0 /\ loc.sent_exporter
    /\ protocol_version(sess) = <<772>>
    /\ loc.key_log = ThisPair
    /\ \E i \in DOMAIN SealLog : SealLog[i].data = ExportedSecrets(ThisPair)

\* A later TLS1.2 connection has exported the secrets of the one before.
C21_WitnessStale ==
    /\ opts.export_traffic_secrets /\ ~is_handshaking(sess)
    /\ loc.sent_exporter /\ protocol_version(sess) = <<771>>
    /\ loc.key_log # KeyLogMemo_default

(***************************************************************************)
(* SpecVerif: the tests of rustls/tests/server_cert_verifier.rs.  A client *)
(* and a server connection live in one process and the test carries the    *)
(* TLS bytes from one to the other.  sess is the client, peer the server,  *)
(* opts the test that runs, loc its loop variables, trace what the         *)
(* handshake helper collected.                                             *)
(***************************************************************************)
\* KeyType::all_for_provider, in its order (those the run covers).
KeyTypes == <<"Rsa2048", "Rsa3072", "Rsa4096", "EcdsaP256", "Ed25519">>

\* rustls::ALL_VERSIONS, in its order
ALL_VERSIONS == <<772, 771>>

\* The schemes a key of the type signs with, in the key's own order.
KeyTypeSchemes(kt) ==
    CASE kt \in {"Rsa2048", "Rsa3072", "Rsa4096"} ->
            <<"RSA_PSS_SHA256", "RSA_PKCS1_SHA256">>
      [] kt = "EcdsaP256" -> <<"ECDSA_NISTP256_SHA256">>
      [] OTHER -> <<"ED25519">>

\* KeyType::ca_distinguished_name: each key type has a CA of its own.
ca_distinguished_name(kt) == <<"CA", kt>>

\* KeyType::certified_key_with_cert_chain: the chain issued by that CA.
certified_key_with_cert_chain(kt) ==
    [issuer |-> ca_distinguished_name(kt), schemes |-> KeyTypeSchemes(kt)]

\* MockServerVerifier and its constructors.
MockServerVerifier_default ==
    [kind |-> "Mock", cert_rejection_error |-> <<>>, tls12_signature_error |-> <<>>,
     tls13_signature_error |-> <<>>,
     signature_schemes |-> <<"RSA_PSS_SHA256", "RSA_PKCS1_SHA256", "ED25519",
                             "ECDSA_NISTP256_SHA256">>]

accepts_anything == MockServerVerifier_default

rejects_certificate(err) ==
    [MockServerVerifier_default EXCEPT !.cert_rejection_error = <<err>>]

rejects_tls12_signatures(err) ==
    [MockServerVerifier_default EXCEPT !.tls12_signature_error = <<err>>]

rejects_tls13_signatures(err) ==
    [MockServerVerifier_default EXCEPT !.tls13_signature_error = <<err>>]

offers_no_signature_schemes ==
    [MockServerVerifier_default EXCEPT !.signature_schemes = <<>>]

\* WebPkiServerVerifier over a root store.
WebPkiServerVerifier(roots) ==
    [kind |-> "WebPki", roots |-> roots,
     signature_schemes |-> <<"RSA_PSS_SHA256", "RSA_PKCS1_SHA256", "ED25519",
                             "ECDSA_NISTP256_SHA256">>]

\* ServerCertVerifierWithCasExt { verifier, ca_names }
ServerCertVerifierWithCasExt(verifier, ca_names) ==
    [kind |-> "WithCasExt", verifier |-> verifier, ca_names |-> ca_names]

\* The verifier that does the work: ServerCertVerifierWithCasExt hands every
\* verification to the verifier it wraps.
Inner(v) == IF v.kind = "WithCasExt" THEN v.verifier ELSE v

\* ServerCertVerifier::verify_server_cert: None for Ok.
verify_server_cert(v, cert) ==
    LET w == Inner(v)
    IN  IF w.kind = "Mock"
        THEN IF w.cert_rejection_error # <<>> THEN w.cert_rejection_error[1] ELSE None
        ELSE IF cert.issuer \in w.roots THEN None
             ELSE "InvalidCertificate_UnknownIssuer"

verify_tls12_signature(v, cert, dss) ==
    LET w == Inner(v)
    IN  IF w.kind = "Mock" /\ w.tls12_signature_error # <<>>
        THEN w.tls12_signature_error[1] ELSE None

verify_tls13_signature(v, cert, dss) ==
    LET w == Inner(v)
    IN  IF w.kind = "Mock" /\ w.tls13_signature_error # <<>>
        THEN w.tls13_signature_error[1] ELSE None

supported_verify_schemes(v) == Inner(v).signature_schemes

\* root_hint_subjects: None (the empty sequence) unless the verifier is a
\* ServerCertVerifierWithCasExt, which returns Some(ca_names).
root_hint_subjects(v) ==
    IF v.kind = "WithCasExt" THEN <<v.ca_names>> ELSE <<>>

\* X509Name::from_der on a distinguished name: Some(the parsed name), or
\* None (the empty sequence) for bytes that are not a DER name.
X509Name_from_der(der) ==
    IF Len(der) = 2 /\ der[1] = "CA" THEN <<der[2]>> ELSE <<>>

\* ResolvesCertChainByCaName::resolve over its list of (name, key) pairs:
\* Some(the key of the first pair whose name is among the CA names of the
\* ClientHello); Some(the key of the first pair of the list) without the
\* extension or without a match.
resolve_default_cert(list, certificate_authorities) == <<list[1].key>>

resolve_in_extension_order(list, certificate_authorities) ==
    IF certificate_authorities = <<>> THEN <<list[1].key>>
    ELSE LET cas_extension == certificate_authorities[1]
             found == SelectSeq(cas_extension, LAMBDA ca_name :
                          \E i \in DOMAIN list : list[i].name = ca_name)
         IN  IF found # <<>>
             THEN <<list[CHOOSE i \in DOMAIN list : list[i].name = found[1]].key>>
             ELSE <<list[1].key>>

ResolvesCertChainByCaName_resolve(list, certificate_authorities) ==
    IF certificate_authorities = <<>> THEN <<list[1].key>>
    ELSE LET cas_extension == certificate_authorities[1]
             found == SelectSeq(list, LAMBDA e :
                          LET name == X509Name_from_der(e.name)[1]
                          IN  \E i \in DOMAIN cas_extension :
                                 LET ca_name == X509Name_from_der(cas_extension[i])
                                 IN  ca_name # <<>> /\ ca_name[1] = name)
         IN  IF found # <<>> THEN <<found[1].key>> ELSE <<list[1].key>>

\* The server's resolver: the one certificate of make_server_config, or a
\* ResolvesCertChainByCaName.
ResolveServerCert(config, certificate_authorities) ==
    IF config.resolver.kind = "ByCaName"
    THEN ResolvesCertChainByCaName_resolve(config.resolver.list, certificate_authorities)
    ELSE <<config.resolver.key>>
\* The alert a client sends when its verifier refuses the certificate or a
\* handshake signature: chosen by the kind of the verifier's error.
cert_verify_error_alert_as_decoded(err) == AlertFor(err)

cert_verify_error_alert(err) ==
    CASE err = "InvalidCertificate_UnknownIssuer" -> "unknown_ca"
      [] err = "PeerMisbehaved" -> "illegal_parameter"
      [] OTHER -> "handshake_failure"

\* One handshake message queued for the peer, and a fatal error with its alert.
PairSend(c, m) == [c EXCEPT !.outq = Append(@, m)]

PairFail(c, e, alert) ==
    [PairSend(c, [msg |-> "Alert", desc |-> alert]) EXCEPT !.err = e]

\* ClientConnection::new: the ClientHello carries the versions of the
\* configuration, the verifier's signature schemes and its root hints.
ClientConnection_new(config) ==
    [side |-> "Client", config |-> config, hs |-> "ExpectServerHello",
     hsDone |-> FALSE, err |-> None, inq |-> <<>>, version |-> <<>>, cert |-> <<>>,
     outq |-> <<[msg |-> "ClientHello", versions |-> config.versions,
                 sigschemes |-> supported_verify_schemes(config.verifier),
                 certificate_authorities |-> root_hint_subjects(config.verifier)]>>]

ServerConnection_new(config) ==
    [side |-> "Server", config |-> config, hs |-> "ExpectClientHello",
     hsDone |-> FALSE, err |-> None, inq |-> <<>>, version |-> <<>>, cert |-> <<>>,
     outq |-> <<>>]

\* The server reads the ClientHello: an empty signature_algorithms list does
\* not decode; otherwise version, certificate and signature scheme are chosen
\* and the server's flight goes out.
ServerFlight(s, v, key, scheme) ==
    LET hello == PairSend(s, [msg |-> "ServerHello", version |-> v])
        cert == PairSend(hello, [msg |-> "Certificate", cert |-> key])
    IN  IF v = 772
        THEN [PairSend(PairSend(cert, [msg |-> "CertificateVerify", scheme |-> scheme]),
                       [msg |-> "Finished"])
                 EXCEPT !.version = <<v>>, !.hs = "ExpectFinished"]
        ELSE [PairSend(PairSend(cert, [msg |-> "ServerKeyExchange", scheme |-> scheme]),
                       [msg |-> "ServerHelloDone"])
                 EXCEPT !.version = <<v>>, !.hs = "ExpectClientKx"]

ServerChooses(s, m) ==
    LET v == select_version(s.config.versions, m.versions)
        resolved == ResolveServerCert(s.config, m.certificate_authorities)
        key == resolved[1]
        scheme == SigningKey_choose_scheme(key.schemes, m.sigschemes)
    IN  IF v = <<>> THEN PairFail(s, "PeerIncompatible", AlertFor("PeerIncompatible"))
        ELSE IF resolved = <<>>
        THEN PairFail(s, "NoSuitableCertificate", AlertFor("NoSuitableCertificate"))
        ELSE IF scheme = <<>>
        THEN PairFail(s, "NoSignatureSchemesInCommon",
                      AlertFor("NoSignatureSchemesInCommon"))
        ELSE ServerFlight(s, v[1], key, scheme[1])

PairClientHello(s, m) ==
    IF m.sigschemes = <<>>
    THEN PairFail(s, "InvalidMessage_NoSignatureSchemes",
                  AlertFor("InvalidMessage_NoSignatureSchemes"))
    ELSE ServerChooses(s, m)

\* The client has the server's certificate and its handshake signature: the
\* verifier is asked about the certificate first, then about the signature
\* of the negotiated version.
VerifyServer(c, dss) ==
    LET v == c.config.verifier
        e1 == verify_server_cert(v, c.cert[1])
        e2 == IF c.version = <<772>> THEN verify_tls13_signature(v, c.cert[1], dss)
              ELSE verify_tls12_signature(v, c.cert[1], dss)
    IN  IF e1 # None THEN PairFail(c, e1, cert_verify_error_alert(e1))
        ELSE IF e2 # None THEN PairFail(c, e2, cert_verify_error_alert(e2))
        ELSE c

PairEstablished(c) == [c EXCEPT !.hs = "Established", !.hsDone = TRUE]

\* The handler of the current state for one message.
PairHandle(c, m) ==
    CASE m.msg = "Alert" -> [c EXCEPT !.err = AlertReceived(m.desc)]
      [] c.hs = "ExpectClientHello" /\ m.msg = "ClientHello" -> PairClientHello(c, m)
      [] c.hs = "ExpectServerHello" /\ m.msg = "ServerHello" ->
            IF m.version \notin c.config.versions
            THEN PairFail(c, "PeerIncompatible", AlertFor("PeerIncompatible"))
            ELSE [c EXCEPT !.version = <<m.version>>, !.hs = "ExpectCertificate"]
      [] c.hs = "ExpectCertificate" /\ m.msg = "Certificate" ->
            [c EXCEPT !.cert = <<m.cert>>,
                      !.hs = IF c.version = <<772>> THEN "ExpectCertificateVerify"
                             ELSE "ExpectServerKx"]
      [] c.hs = "ExpectCertificateVerify" /\ m.msg = "CertificateVerify" ->
            LET v == VerifyServer(c, m.scheme)
            IN  IF v.err # None THEN v ELSE [v EXCEPT !.hs = "ExpectFinished"]
      [] c.hs = "ExpectServerKx" /\ m.msg = "ServerKeyExchange" ->
            [c EXCEPT !.hs = "ExpectServerDone", !.cert = @ \o <<m.scheme>>]
      [] c.hs = "ExpectServerDone" /\ m.msg = "ServerHelloDone" ->
            LET v == VerifyServer(c, c.cert[2])
            IN  IF v.err # None THEN v
                ELSE [PairSend(PairSend(v, [msg |-> "ClientKeyExchange"]),
                               [msg |-> "Finished"]) EXCEPT !.hs = "ExpectFinished"]
      [] c.hs = "ExpectClientKx" /\ m.msg = "ClientKeyExchange" ->
            [c EXCEPT !.hs = "ExpectFinished"]
      [] c.hs = "ExpectFinished" /\ m.msg = "Finished" ->
            IF c.side = "Client" /\ c.version = <<772>>
            THEN PairEstablished(PairSend(c, [msg |-> "Finished"]))
            ELSE IF c.side = "Server" /\ c.version = <<772>>
            THEN PairEstablished(PairSend(c, [msg |-> "NewSessionTicket"]))
            ELSE IF c.side = "Server"
            THEN PairEstablished(PairSend(c, [msg |-> "Finished"]))
            ELSE PairEstablished(c)
      [] c.hs = "Established" /\ m.msg = "NewSessionTicket" -> c
      [] OTHER -> PairFail(c, "InappropriateHandshakeMessage",
                           AlertFor("InappropriateHandshakeMessage"))

RECURSIVE PairProcess(_)
\* process_new_packets of a connection of the pair: every message received,
\* in order, up to the first error, which stays with the connection.
PairProcess(c) ==
    IF c.err # None \/ c.inq = <<>> THEN c
    ELSE PairProcess(PairHandle([c EXCEPT !.inq = Tail(@)], Head(c.inq)))

\* transfer(left, right): everything left wants to write is read by right.
transfer_left(left) == [left EXCEPT !.outq = <<>>]
transfer_right(left, right) == [right EXCEPT !.inq = @ \o left.outq]
\* make_server_config and make_client_config_with_versions of a key type:
\* the server presents the chain of the key type's CA, the client trusts it.
make_server_config(kt) ==
    [versions |-> {771, 772},
     resolver |-> [kind |-> "Single", key |-> certified_key_with_cert_chain(kt)]]

make_client_config_with_versions(kt, versions) ==
    [versions |-> versions,
     verifier |-> WebPkiServerVerifier({ca_distinguished_name(kt)})]

\* dangerous().set_certificate_verifier
set_certificate_verifier(config, verifier) == [config EXCEPT !.verifier = verifier]

\* client_config_builder ... with_custom_certificate_verifier
client_config_with_custom_verifier(verifier) ==
    [versions |-> {771, 772}, verifier |-> verifier]

\* server_config_builder ... with_cert_resolver(ResolvesCertChainByCaName)
server_config_with_cert_resolver(key_types) ==
    [versions |-> {771, 772},
     resolver |-> [kind |-> "ByCaName",
                   list |-> [i \in DOMAIN key_types |->
                                [name |-> ca_distinguished_name(key_types[i]),
                                 key |-> certified_key_with_cert_chain(key_types[i])]]]]

\* The tests of the file.
VerifierTests ==
    {"client_can_override_certificate_verification",
     "client_can_override_certificate_verification_and_reject_certificate",
     "client_can_override_certificate_verification_and_reject_tls12_signatures",
     "client_can_override_certificate_verification_and_reject_tls13_signatures",
     "client_can_override_certificate_verification_and_offer_no_signature_schemes"}

CasTest == "client_can_request_certain_trusted_cas"

\* The verifier a test installs.
TestVerifier(test) ==
    CASE test = "client_can_override_certificate_verification" -> accepts_anything
      [] test = "client_can_override_certificate_verification_and_reject_certificate" ->
            rejects_certificate("InvalidMessage_HandshakePayloadTooLarge")
      [] test = "client_can_override_certificate_verification_and_reject_tls12_signatures" ->
            rejects_tls12_signatures("InvalidMessage_HandshakePayloadTooLarge")
      [] test = "client_can_override_certificate_verification_and_reject_tls13_signatures" ->
            rejects_tls13_signatures("InvalidMessage_HandshakePayloadTooLarge")
      [] OTHER -> offers_no_signature_schemes

\* The versions a test gives its client for each key type, in loop order.
TestVersions(test) ==
    CASE test = "client_can_override_certificate_verification_and_reject_tls12_signatures" ->
            <<771>>
      [] test = "client_can_override_certificate_verification_and_reject_tls13_signatures" ->
            <<772>>
      [] OTHER -> ALL_VERSIONS

\* The helper a test drives the pair with.
TestHelper(test) ==
    IF test = "client_can_override_certificate_verification" THEN "do_handshake"
    ELSE "do_handshake_until_both_error"

\* What a test expects of the helper.
ErrorFromPeer(side, err) == [from |-> side, err |-> err]

TestExpects(test) ==
    CASE test = "client_can_override_certificate_verification" -> <<>>
      [] test = "client_can_override_certificate_verification_and_offer_no_signature_schemes" ->
            <<ErrorFromPeer("Server", "InvalidMessage_NoSignatureSchemes"),
              ErrorFromPeer("Client", AlertReceived("decode_error"))>>
      [] OTHER ->
            <<ErrorFromPeer("Client", "InvalidMessage_HandshakePayloadTooLarge"),
              ErrorFromPeer("Server", AlertReceived("handshake_failure"))>>

\* The pairs a test makes, in order: one for each key type and version of
\* its loops; client_can_request_certain_trusted_cas makes two for each key
\* type, a client that sends its CA's name and one that does not.
TestPairs(o) ==
    IF o.test = CasTest
    THEN [n \in 1..(2 * Len(o.key_types)) |->
            LET key_type == o.key_types[((n - 1) \div 2) + 1]
                server_verifier == WebPkiServerVerifier({ca_distinguished_name(key_type)})
                sending == n % 2 = 1
            IN  [kt |-> key_type, cas_sending |-> sending,
                 helper |-> IF sending THEN "do_handshake" ELSE "do_handshake_until_error",
                 expects |-> <<>>,
                 server_config |-> server_config_with_cert_resolver(o.key_types),
                 client_config |->
                    IF sending
                    THEN client_config_with_custom_verifier(
                             ServerCertVerifierWithCasExt(
                                 server_verifier, <<ca_distinguished_name(key_type)>>))
                    ELSE client_config_with_custom_verifier(server_verifier)]]
    ELSE LET vs == TestVersions(o.test)
         IN  [n \in 1..(Len(o.key_types) * Len(vs)) |->
                LET kt == o.key_types[((n - 1) \div Len(vs)) + 1]
                    version == vs[((n - 1) % Len(vs)) + 1]
                IN  [kt |-> kt, cas_sending |-> FALSE,
                     helper |-> TestHelper(o.test),
                     expects |-> TestExpects(o.test),
                     server_config |-> make_server_config(kt),
                     client_config |->
                        set_certificate_verifier(
                            make_client_config_with_versions(kt, {version}),
                            TestVerifier(o.test))]]

ThisPairOfTest == TestPairs(opts)[loc.i]

\* The key types a run of client_can_request_certain_trusted_cas may be
\* given: CAs with different names, in any order.
CaKeyTypes == {"Rsa2048", "Rsa3072", "Rsa4096"}

CaKeyTypeLists ==
    {l \in UNION {[1..n -> CaKeyTypes] : n \in 1..3} :
        \A i, j \in DOMAIN l : i # j => l[i] # l[j]}

InitVerif ==
    /\ opts \in {[test |-> t, key_types |-> KeyTypes] : t \in VerifierTests}
                \cup {[test |-> CasTest, key_types |-> l] : l \in CaKeyTypeLists}
    /\ sess = None /\ peer = None
    /\ conn = FreshConn
    /\ pc = "make_pair"
    /\ loc = [i |-> 1, cas_unaware_error_count |-> 0]
    /\ exit = Running
    /\ trace = [errs |-> <<>>]
    /\ srv = None /\ cli = None /\ now = StartTime

\* make_pair_for_arc_configs: the next pair of the test's loop.
MakePair ==
    /\ pc = "make_pair" /\ exit = Running
    /\ loc.i <= Len(TestPairs(opts))
    /\ sess' = ClientConnection_new(ThisPairOfTest.client_config)
    /\ peer' = ServerConnection_new(ThisPairOfTest.server_config)
    /\ trace' = [errs |-> <<>>]
    /\ pc' = "c2s"
    /\ UNCHANGED <<opts, conn, loc, exit, cacheVars>>

\* do_handshake_until_error, one step of its loop at a time:
\* transfer(client, server)
TransferToServer ==
    /\ pc = "c2s"
    /\ peer' = transfer_right(sess, peer)
    /\ sess' = transfer_left(sess)
    /\ pc' = "server"
    /\ UNCHANGED <<opts, conn, loc, exit, trace, cacheVars>>

\* server.process_new_packets().map_err(ErrorFromPeer::Server)?
ServerProcess ==
    /\ pc = "server"
    /\ peer' = PairProcess(peer)
    /\ IF peer'.err # None
       THEN /\ trace' = [trace EXCEPT !.errs = Append(@, ErrorFromPeer("Server", peer'.err))]
            /\ pc' = "failed"
       ELSE /\ pc' = "s2c"
            /\ UNCHANGED trace
    /\ UNCHANGED <<opts, sess, conn, loc, exit, cacheVars>>

\* transfer(server, client)
TransferToClient ==
    /\ pc = "s2c"
    /\ sess' = transfer_right(peer, sess)
    /\ peer' = transfer_left(peer)
    /\ pc' = "client"
    /\ UNCHANGED <<opts, conn, loc, exit, trace, cacheVars>>

\* client.process_new_packets().map_err(ErrorFromPeer::Client)?, and the
\* loop condition: while server.is_handshaking() || client.is_handshaking()
ClientProcess ==
    /\ pc = "client"
    /\ sess' = PairProcess(sess)
    /\ IF sess'.err # None
       THEN /\ trace' = [trace EXCEPT !.errs = Append(@, ErrorFromPeer("Client", sess'.err))]
            /\ pc' = "failed"
       ELSE /\ pc' = IF is_handshaking(peer) \/ is_handshaking(sess') THEN "c2s"
                     ELSE "check"
            /\ UNCHANGED trace
    /\ UNCHANGED <<opts, peer, conn, loc, exit, cacheVars>>

\* do_handshake_until_both_error after the first error: the failed side's
\* bytes go to the other side, which must fail as well (expect_err).  The
\* other helpers return the first error as it is.
OtherSide ==
    /\ pc = "failed"
    /\ IF ThisPairOfTest.helper # "do_handshake_until_both_error"
       THEN /\ pc' = "check"
            /\ UNCHANGED <<sess, peer, trace, exit>>
       ELSE LET first == trace.errs[1].from
                c == IF first = "Server" THEN PairProcess(transfer_right(peer, sess))
                     ELSE sess
                s == IF first = "Client" THEN PairProcess(transfer_right(sess, peer))
                     ELSE peer
                other == IF first = "Server" THEN c ELSE s
            IN  /\ sess' = IF first = "Client" THEN transfer_left(sess) ELSE c
                /\ peer' = IF first = "Server" THEN transfer_left(peer) ELSE s
                /\ IF other.err = None
                   THEN /\ exit' = Panicked /\ pc' = "done"
                        /\ UNCHANGED trace
                   ELSE /\ trace' = [trace EXCEPT !.errs =
                                Append(@, ErrorFromPeer(other.side, other.err))]
                        /\ pc' = "check"
                        /\ UNCHANGED exit
    /\ UNCHANGED <<opts, conn, loc, cacheVars>>

\* What a test asserts about one pair: do_handshake unwraps every result,
\* the rejecting tests compare the errors (assert_eq!), and
\* client_can_request_certain_trusted_cas accepts a failure of the unaware
\* client only if it is the client's InvalidCertificate(UnknownIssuer).
PairAssertion ==
    CASE ThisPairOfTest.helper = "do_handshake" -> trace.errs = <<>>
      [] ThisPairOfTest.helper = "do_handshake_until_both_error" ->
            trace.errs = ThisPairOfTest.expects
      [] OTHER ->
            trace.errs = <<>>
                \/ trace.errs[1] = ErrorFromPeer("Client", "InvalidCertificate_UnknownIssuer")

CheckPair ==
    /\ pc = "check"
    /\ IF PairAssertion
       THEN /\ loc' = [i |-> loc.i + 1,
                       cas_unaware_error_count |->
                           IF ThisPairOfTest.helper = "do_handshake_until_error"
                              /\ trace.errs # <<>>
                           THEN loc.cas_unaware_error_count + 1
                           ELSE loc.cas_unaware_error_count]
            /\ pc' = "make_pair"
            /\ UNCHANGED exit
       ELSE /\ exit' = Panicked /\ pc' = "done"
            /\ UNCHANGED loc
    /\ UNCHANGED <<opts, sess, peer, conn, trace, cacheVars>>

\* The end of the test: assert_eq!(cas_unaware_error_count, key_types.len() - 1)
EndOfTest ==
    /\ pc = "make_pair" /\ exit = Running
    /\ loc.i > Len(TestPairs(opts))
    /\ exit' = IF opts.test = CasTest
                  /\ loc.cas_unaware_error_count # Len(opts.key_types) - 1
               THEN Panicked ELSE Returned
    /\ pc' = "done"
    /\ UNCHANGED <<opts, sess, peer, conn, loc, trace, cacheVars>>

NextVerif ==
    \/ MakePair
    \/ TransferToServer
    \/ ServerProcess
    \/ TransferToClient
    \/ ClientProcess
    \/ OtherSide
    \/ CheckPair
    \/ EndOfTest

SpecVerif == InitVerif /\ [][NextVerif]_vars

(***************************************************************************)
(* C22..C24: what the tests of server_cert_verifier.rs establish.          *)
(***************************************************************************)
\* The helper has returned for the current pair.
HelperReturned == pc = "check"

\* The test has made a pair.
PairMade == pc # "make_pair" \/ loc.i > 1

\* The error the client's verifier gives in this handshake, if any: the
\* certificate is asked about first, then the signature of the version.
VerifierRejection ==
    LET v == Inner(sess.config.verifier)
    IN  IF v.kind # "Mock" THEN <<>>
        ELSE IF v.cert_rejection_error # <<>> THEN v.cert_rejection_error
        ELSE IF sess.config.versions = {771} THEN v.tls12_signature_error
        ELSE IF sess.config.versions = {772} THEN v.tls13_signature_error
        ELSE <<>>

MockPair ==
    /\ opts.test \in VerifierTests
    /\ supported_verify_schemes(sess.config.verifier) # <<>>

\* C22: the client's handshake outcome follows its ServerCertVerifier for
\* every key type and protocol version: with a verifier that accepts
\* everything the handshake completes on both sides; when the verifier
\* rejects the certificate, a TLS1.2 handshake signature or a TLS1.3
\* handshake signature with error E, the client fails first with exactly E
\* and the server then fails with AlertReceived(HandshakeFailure).
C22_OutcomeFollowsVerifier ==
    /\ opts.test \in VerifierTests
         /\ opts.test # "client_can_override_certificate_verification_and_offer_no_signature_schemes"
         => exit # Panicked
    /\ HelperReturned /\ MockPair =>
         IF VerifierRejection = <<>>
         THEN /\ trace.errs = <<>>
              /\ ~is_handshaking(sess) /\ ~is_handshaking(peer)
              /\ sess.err = None /\ peer.err = None
         ELSE /\ trace.errs = <<ErrorFromPeer("Client", VerifierRejection[1]),
                                ErrorFromPeer("Server", "AlertReceived_HandshakeFailure")>>
              /\ sess.err = VerifierRejection[1]
              /\ is_handshaking(sess) /\ is_handshaking(peer)

\* C22, reached: an Ed25519 server under TLS1.2 whose signature the verifier
\* rejected; both sides have failed, the client first.
C22_Witness ==
    /\ HelperReturned /\ MockPair
    /\ ThisPairOfTest.kt = "Ed25519" /\ sess.version = <<771>>
    /\ Inner(sess.config.verifier).tls12_signature_error # <<>>
    /\ Len(trace.errs) = 2 /\ trace.errs[1].from = "Client"
    /\ peer.err = "AlertReceived_HandshakeFailure"

\* C22, reached: the accepting verifier, an RSA server under TLS1.3, both
\* sides done.
C22_WitnessAccepted ==
    /\ HelperReturned /\ MockPair /\ VerifierRejection = <<>>
    /\ ThisPairOfTest.kt = "Rsa3072" /\ sess.version = <<772>> /\ peer.version = <<772>>
    /\ ~is_handshaking(sess) /\ ~is_handshaking(peer)

\* C23: when the client's verifier offers an empty list of signature schemes,
\* for every key type and protocol version the handshake never completes:
\* the server fails first with InvalidMessage(NoSignatureSchemes) and the
\* client then fails with AlertReceived(DecodeError).
C23_NoSignatureSchemes ==
    opts.test \in VerifierTests /\ PairMade
        /\ supported_verify_schemes(sess.config.verifier) = <<>> =>
            /\ is_handshaking(sess) /\ is_handshaking(peer)
            /\ exit # Panicked
            /\ HelperReturned =>
                trace.errs = <<ErrorFromPeer("Server", "InvalidMessage_NoSignatureSchemes"),
                               ErrorFromPeer("Client", "AlertReceived_DecodeError")>>

\* C23, reached: the helper returned both errors for an ECDSA server and a
\* TLS1.3-only client.
C23_Witness ==
    /\ HelperReturned /\ opts.test \in VerifierTests
    /\ supported_verify_schemes(sess.config.verifier) = <<>>
    /\ ThisPairOfTest.kt = "EcdsaP256" /\ sess.config.versions = {772}
    /\ peer.err = "InvalidMessage_NoSignatureSchemes"
    /\ sess.err = "AlertReceived_DecodeError"

\* The CA whose name the resolver's default (first) certificate was issued by.
DefaultIssuer == ThisPairOfTest.server_config.resolver.list[1].key.issuer

\* C24: with a server resolver that picks its certificate by the CA names in
\* the ClientHello, every client that sends its own trusted CA's name as a
\* root hint completes the handshake; among the clients that send no hint
\* exactly those whose trust root is not the issuer of the resolver's default
\* certificate fail, each with InvalidCertificate(UnknownIssuer); with k
\* distinct CAs exactly k-1 unaware clients fail.
C24_CertificateByCaName ==
    opts.test = CasTest =>
        /\ exit # Panicked
        /\ HelperReturned /\ ThisPairOfTest.cas_sending =>
              /\ trace.errs = <<>>
              /\ ~is_handshaking(sess) /\ ~is_handshaking(peer)
              /\ sess.cert[1].issuer = ca_distinguished_name(ThisPairOfTest.kt)
        /\ HelperReturned /\ ~ThisPairOfTest.cas_sending =>
              /\ trace.errs # <<>>
                    <=> ca_distinguished_name(ThisPairOfTest.kt) # DefaultIssuer
              /\ trace.errs # <<>> =>
                    trace.errs = <<ErrorFromPeer("Client",
                                                 "InvalidCertificate_UnknownIssuer")>>
        /\ pc = "done" => loc.cas_unaware_error_count = Len(opts.key_types) - 1

\* C24, reached: three CAs, the test is over and two unaware clients failed.
C24_Witness ==
    /\ opts.test = CasTest /\ pc = "done" /\ exit = Returned
    /\ Len(opts.key_types) = 3 /\ loc.cas_unaware_error_count = 2

\* C24, reached: the client of the third CA sent its hint and was given the
\* third certificate.
C24_WitnessHint ==
    /\ opts.test = CasTest /\ HelperReturned /\ ThisPairOfTest.cas_sending
    /\ Len(opts.key_types) = 3 /\ loc.i = 5
    /\ sess.cert[1].issuer = ca_distinguished_name(opts.key_types[3])
    /\ ~is_handshaking(sess)

(***************************************************************************)
(* SpecStream: Stream (src/rustls/src/stream.rs) over a connection and a   *)
(* transport.  sess is Stream::conn, conn is Stream::sock, loc the call in *)
(* progress, trace what the properties keep of the calls.  A caller makes  *)
(* up to MaxCalls calls, one after the other; the peer follows the         *)
(* handshake, sends data, closes or fails, and the transport may be reset. *)
(* complete_io is ConnectionCommon::complete_io: while handshaking, I/O    *)
(* until the handshake is over; else everything queued is written; else    *)
(* one read if the connection wants one.                                   *)
(***************************************************************************)
\* Calls made on one stream.
MaxCalls == 3

StreamOps == {"read", "fill_buf", "write", "write_vectored", "flush"}

\* The buffers a caller writes: nothing, or b"hello" (write_vectored: a list
\* of buffers, taken together).
StreamBufs == {<<>>, Hello}

NoCio == [until_handshaked |-> FALSE, eof |-> FALSE, rdlen |-> 0, wrlen |-> 0,
          ret |-> "none"]

NoResult == [op |-> "none", ok |-> TRUE, len |-> 0, err |-> None]

FreshCall == [op |-> "none", buf |-> <<>>, size |-> 0, cio |-> NoCio]

FreshStreamTrace ==
    [calls |-> 0, prior |-> "none", prior_handshaking |-> FALSE,
     prior_wants_write |-> FALSE, touched |-> FALSE, accepted |-> <<>>,
     masked |-> FALSE, queued |-> FALSE, result |-> NoResult,
     prev |-> [op |-> "none", masked |-> FALSE, queued |-> FALSE, accepted |-> <<>>]]

\* complete_io entered: until_handshaked is is_handshaking() on entry.
EnterCio(l, c, ret) ==
    [l EXCEPT !.cio = [until_handshaked |-> is_handshaking(c), eof |-> FALSE,
                       rdlen |-> 0, wrlen |-> 0, ret |-> ret]]

\* The call returns to its caller.
Returns(tr, op, ok, len, err, c) ==
    [tr EXCEPT !.result = [op |-> op, ok |-> ok, len |-> len, err |-> err],
               !.queued = wants_write(c)]

\* prepare_read, the body of the loop: if complete_io(..)?.0 == 0 { break },
\* else the condition of the loop is tested again.
prepare_read_again(rdlen) == "prepare_read"

prepare_read_after(rdlen) == IF rdlen = 0 THEN "reader" ELSE "prepare_read"


\* Where a complete_io call returns to, with Ok or with an error:
\* complete_prior_io and prepare_read pass the error on (the ? operator),
\* write and write_vectored drop it (let _ =) and return Ok(len).
CioReturnsPropagating(l, tr, c, k, ok, err, rdlen) ==
    CASE l.cio.ret = "prior_ww" ->
            IF ok THEN [pc |-> "prior_ww", trace |-> tr]
            ELSE [pc |-> "idle",
                  trace |-> Returns([tr EXCEPT !.prior = "Err"], l.op, FALSE, 0, err, c)]
      [] l.cio.ret = "prior_ok" ->
            IF ok THEN [pc |-> "prior_ok", trace |-> tr]
            ELSE [pc |-> "idle",
                  trace |-> Returns([tr EXCEPT !.prior = "Err"], l.op, FALSE, 0, err, c)]
      [] l.cio.ret = "prepare_read" ->
            IF ok THEN [pc |-> prepare_read_after(rdlen), trace |-> tr]
            ELSE [pc |-> "idle", trace |-> Returns(tr, l.op, FALSE, 0, err, c)]
      [] OTHER ->
            IF ok THEN [pc |-> "idle", trace |-> Returns(tr, l.op, TRUE, 0, None, c)]
            ELSE [pc |-> "idle", trace |-> Returns(tr, l.op, FALSE, 0, err, c)]

CioReturns(l, tr, c, k, ok, err, rdlen) ==
    IF l.cio.ret = "write"
    THEN [pc |-> "idle",
          trace |-> Returns([tr EXCEPT !.masked = ~ok /\ k.reset],
                            l.op, TRUE, tr.accepted[1], None, c)]
    ELSE CioReturnsPropagating(l, tr, c, k, ok, err, rdlen)

InitStream ==
    /\ opts \in {[BaseOpts EXCEPT !.side = sd] : sd \in {"Client", "Server"}}
    /\ sess = make_session(opts)
    /\ conn = FreshConn
    /\ pc = "idle"
    /\ loc = FreshCall
    /\ exit = Running
    /\ peer = FreshPeer
    /\ trace = FreshStreamTrace
    /\ CacheIdle

StreamCallNoHandshake(op, buf, size) ==
    /\ pc = "idle"
    /\ trace.calls < MaxCalls
    /\ op \in {"write", "write_vectored"} \/ buf = <<>>
    /\ (op \in {"read", "fill_buf"}) = (size > 0)
    /\ trace' = [trace EXCEPT !.calls = @ + 1, !.prior = "none", !.touched = FALSE,
                              !.accepted = <<>>, !.masked = FALSE,
                              !.prev = [op |-> trace.result.op, masked |-> trace.masked,
                                        queued |-> trace.queued,
                                        accepted |-> trace.accepted]]
    /\ loc' = [op |-> op, buf |-> buf, size |-> size, cio |-> NoCio]
    /\ pc' = "prior_ww"
    /\ UNCHANGED <<opts, sess, conn, exit, peer, cacheVars>>

\* A call of read, fill_buf, write, write_vectored or flush begins: each
\* starts with complete_prior_io (through prepare_read for the first two),
\* whose first step is complete_io if the connection is handshaking.
StreamCallOn(c, k, op, buf, size) ==
    /\ pc = "idle"
    /\ trace.calls < MaxCalls
    /\ op \in {"write", "write_vectored"} \/ buf = <<>>
    /\ (op \in {"read", "fill_buf"}) = (size > 0)
    /\ trace' = [trace EXCEPT !.calls = @ + 1, !.prior = "none", !.touched = FALSE,
                              !.accepted = <<>>, !.masked = FALSE,
                              !.prev = [op |-> trace.result.op, masked |-> trace.masked,
                                        queued |-> trace.queued,
                                        accepted |-> trace.accepted]]
    /\ LET l == [op |-> op, buf |-> buf, size |-> size, cio |-> NoCio]
       IN  IF is_handshaking(c)
           THEN loc' = EnterCio(l, c, "prior_ww") /\ pc' = "cio_write"
           ELSE loc' = l /\ pc' = "prior_ww"
    /\ sess' = c
    /\ conn' = k
    /\ UNCHANGED <<opts, exit, peer, cacheVars>>

\* The call is made on the Stream over the connection and the transport.
StreamCall(op, buf, size) == StreamCallOn(sess, conn, op, buf, size)

PriorSkipsWrite ==
    /\ pc = "prior_ww"
    /\ loc' = loc /\ pc' = "prior_ok"
    /\ UNCHANGED <<opts, sess, conn, exit, peer, trace, cacheVars>>

\* complete_prior_io, second step: if self.conn.wants_write() { complete_io? }
PriorWantsWrite ==
    /\ pc = "prior_ww"
    /\ IF wants_write(sess)
       THEN loc' = EnterCio(loc, sess, "prior_ok") /\ pc' = "cio_write"
       ELSE loc' = loc /\ pc' = "prior_ok"
    /\ UNCHANGED <<opts, sess, conn, exit, peer, trace, cacheVars>>

\* complete_prior_io returned Ok(()): what the call does next.
\*   write / write_vectored: writer().write(buf)?, then complete_io, result dropped
\*   flush: writer().flush()?, then complete_io? if wants_write()
\*   read / fill_buf: the loop of prepare_read
AfterPriorIo ==
    /\ pc = "prior_ok"
    /\ LET tr == [trace EXCEPT !.prior = "Ok",
                               !.prior_handshaking = is_handshaking(sess),
                               !.prior_wants_write = wants_write(sess)]
       IN  CASE loc.op \in {"write", "write_vectored"} ->
                    LET w == WriterWrite(sess, loc.buf)
                    IN  /\ sess' = w
                        /\ trace' = [tr EXCEPT !.touched = TRUE,
                                               !.accepted = <<SumN(loc.buf)>>]
                        /\ loc' = EnterCio(loc, w, "write")
                        /\ pc' = "cio_write"
             [] loc.op = "flush" ->
                    /\ sess' = sess
                    /\ IF wants_write(sess)
                       THEN /\ loc' = EnterCio(loc, sess, "flush")
                            /\ pc' = "cio_write"
                            /\ trace' = [tr EXCEPT !.touched = TRUE]
                       ELSE /\ loc' = loc
                            /\ pc' = "idle"
                            /\ trace' = Returns([tr EXCEPT !.touched = TRUE],
                                                "flush", TRUE, 0, None, sess)
             [] OTHER ->
                    /\ sess' = sess /\ loc' = loc /\ trace' = tr
                    /\ pc' = "prepare_read"
    /\ UNCHANGED <<opts, conn, exit, peer, cacheVars>>

\* prepare_read: while self.conn.wants_read() { if complete_io?.0 == 0 { break } }
PrepareRead ==
    /\ pc = "prepare_read"
    /\ IF wants_read(sess)
       THEN loc' = EnterCio(loc, sess, "prepare_read") /\ pc' = "cio_write"
       ELSE loc' = loc /\ pc' = "reader"
    /\ UNCHANGED <<opts, sess, conn, exit, peer, trace, cacheVars>>

\* self.conn.reader().read(buf) and reader().into_first_chunk(): plaintext
\* that is there, Ok(0) after close_notify, UnexpectedEof after an EOF
\* without it, WouldBlock when there is nothing yet.
StreamReader ==
    /\ pc = "reader"
    /\ LET r == ReaderResult(sess)
           n == Min(loc.size, SumN(sess.plainIn))
           tr == [trace EXCEPT !.touched = TRUE]
       IN  /\ sess' = IF r = "data" /\ loc.op = "read"
                      THEN [sess EXCEPT !.plainIn = DropBytes(@, n)] ELSE sess
           /\ trace' = CASE r = "data" -> Returns(tr, loc.op, TRUE, n, None, sess')
                         [] r = "zero" -> Returns(tr, loc.op, TRUE, 0, None, sess')
                         [] OTHER -> Returns(tr, loc.op, FALSE, 0, r, sess')
    /\ pc' = "idle"
    /\ UNCHANGED <<opts, conn, loc, exit, peer, cacheVars>>
\* complete_io, the writes: while wants_write() { write_tls(io)? }; outside
\* the handshake the call is over once something was written.
CioWrite ==
    /\ pc = "cio_write"
    /\ IF wants_write(sess) /\ conn.reset
       THEN LET r == CioReturns(loc, trace, sess, conn, FALSE, "BrokenPipe", 0)
            IN  /\ pc' = r.pc /\ trace' = r.trace
                /\ UNCHANGED <<sess, conn, loc>>
       ELSE LET wrlen == loc.cio.wrlen + Len(sess.outq)
                s == FlushedSess(sess)
                r == CioReturns(loc, trace, s, conn, TRUE, None, loc.cio.rdlen)
            IN  /\ sess' = s
                /\ conn' = FlushedConn(sess, conn)
                /\ loc' = [loc EXCEPT !.cio.wrlen = wrlen]
                /\ IF ~loc.cio.until_handshaked /\ wrlen > 0
                   THEN pc' = r.pc /\ trace' = r.trace
                   ELSE pc' = "cio_read" /\ trace' = trace
    /\ UNCHANGED <<opts, exit, peer, cacheVars>>

\* What complete_io does with what process_new_packets made of the input:
\* an error is wrapped as InvalidData (after a last write of what is
\* queued); a handshake that has just ended with data queued goes round to
\* write it; a call that was to finish the handshake ends with it, or with
\* UnexpectedEof at the end of the stream; any other call ends after one
\* round.
CioVerdict(l, n, eof) ==
    IF n.err # None THEN "InvalidData"
    ELSE IF l.cio.until_handshaked /\ ~is_handshaking(n) /\ wants_write(n) THEN "continue"
    ELSE IF l.cio.until_handshaked /\ ~is_handshaking(n) THEN "Ok"
    ELSE IF ~l.cio.until_handshaked THEN "Ok"
    ELSE IF eof THEN "UnexpectedEof"
    ELSE "continue"

\* complete_io, the read: one read_tls(io) if wants_read() (it blocks until
\* the transport has something, and fails on a reset transport), then
\* process_new_packets.
CioRead ==
    /\ pc = "cio_read"
    /\ LET reads == ~loc.cio.eof /\ wants_read(sess)
       IN  /\ reads => ~ReadBlocks(conn)
           /\ IF reads /\ conn.reset
              THEN LET r == CioReturns(loc, trace, sess, conn, FALSE, "ConnectionReset", 0)
                   IN  /\ pc' = r.pc /\ trace' = r.trace
                       /\ UNCHANGED <<sess, conn, loc>>
              ELSE LET count == IF reads THEN Len(conn.inb) ELSE 0
                       c1 == IF reads THEN ReadTls(sess, Take(conn.inb, count)) ELSE sess
                       n == ProcessNewPackets(c1)
                       eof == loc.cio.eof \/ (reads /\ count = 0)
                       rdlen == loc.cio.rdlen + count
                       v == CioVerdict(loc, n, eof)
                       gasp == v = "InvalidData" /\ ~conn.reset
                       s == IF gasp THEN FlushedSess(n) ELSE n
                       k == [conn EXCEPT !.inb = Drop(@, count)]
                       r == CioReturns(loc, trace, s, k, v = "Ok", v, rdlen)
                   IN  /\ sess' = s
                       /\ conn' = IF gasp THEN FlushedConn(n, k) ELSE k
                       /\ loc' = [loc EXCEPT !.cio.eof = eof, !.cio.rdlen = rdlen]
                       /\ IF v = "continue"
                          THEN pc' = "cio_write" /\ trace' = trace
                          ELSE pc' = r.pc /\ trace' = r.trace
    /\ UNCHANGED <<opts, exit, peer, cacheVars>>

\* What the peer of a stream sends: its handshake messages in order, data
\* and its close_notify once the handshake is over, or a fatal alert; it
\* updates its keys (a record that brings no plaintext) only while a read of
\* the stream is waiting for the transport.
StreamPeer(t) ==
    /\ t.prot = "live"
    /\ t.typ = "ApplicationData" => t.data[1].n = 1
    /\ t.msg # "KeyUpdateRequested"
    /\ t.msg = "KeyUpdate" => pc = "cio_read" /\ loc.cio.ret = "prepare_read"
    /\ \/ t.typ = "Alert" /\ t.msg = "handshake_failure"
       \/ /\ Honest(t)
          /\ t.typ = "Alert" => peer.step = Len(Script(opts))

NextStream ==
    \/ \E op \in StreamOps, buf \in StreamBufs, size \in {0, 1, 8} :
            StreamCall(op, buf, size)
    \/ PriorWantsWrite
    \/ AfterPriorIo
    \/ PrepareRead
    \/ StreamReader
    \/ CioWrite
    \/ CioRead
    \/ \E t \in Templates : StreamPeer(t) /\ PeerSend(t)
    \/ PeerClose
    \/ PeerReset

SpecStream == InitStream /\ [][NextStream]_vars

(***************************************************************************)
(* C25..C27: the calls of a Stream.                                        *)
(***************************************************************************)
\* The last call has returned to the caller.
CallReturned == pc = "idle" /\ trace.calls > 0

WriteOps == {"write", "write_vectored"}

C25_WitnessError ==
    /\ CallReturned /\ loc.op = "read" /\ trace.prior = "Err"
    /\ trace.result.err = "UnexpectedEof" /\ is_handshaking(sess)

\* C26: Stream::write and Stream::write_vectored return Ok(len) whenever the
\* connection's plaintext writer accepted len bytes, even if the transport
\* push that follows fails: the error never turns the result into an error
\* and never changes len.
C26_WriteReportsAccepted ==
    CallReturned /\ loc.op \in WriteOps /\ trace.accepted # <<>> =>
        /\ trace.result.ok
        /\ trace.result.len = trace.accepted[1]
        /\ trace.accepted[1] = SumN(loc.buf)

\* C26, reached: the writer took five bytes, the transport was reset before
\* they could be pushed, the call returned Ok(5) and they are still queued.
C26_Witness ==
    /\ CallReturned /\ loc.op = "write_vectored" /\ trace.masked
    /\ trace.result.ok /\ trace.result.len = 5
    /\ conn.reset /\ wants_write(sess)

\* The call before the last was a write whose transport push failed on a
\* failing transport and was masked; the transport has been failing since.
AfterMaskedWrite ==
    /\ CallReturned /\ trace.calls > 1
    /\ trace.prev.op \in WriteOps /\ trace.prev.masked
    /\ conn.reset

C27_WitnessMaskedTwice ==
    /\ AfterMaskedWrite /\ ~trace.prev.queued
    /\ trace.prev.accepted = <<0>>
    /\ loc.op = "write" /\ trace.result.ok /\ trace.result.len = 5

(***************************************************************************)
(* C28: the advisories and the transport.                                  *)
(***************************************************************************)
\* This step reads from the transport: read_all_bytes or read_n_bytes of
\* the shim, or the read_tls of complete_io under a Stream.
TransportRead ==
    \/ pc = "read" /\ pc' # pc
    \/ pc = "read_n" /\ loc'.i # loc.i
    \/ /\ pc = "cio_read"
       /\ loc'.cio.rdlen > loc.cio.rdlen \/ (loc'.cio.eof /\ ~loc.cio.eof)

\* This step of complete_io writes what was queued when it began.
TransportWrite == pc = "cio_write" /\ conn'.wire # conn.wire

C28_Step ==
    /\ TransportRead => wants_read(sess)
    /\ TransportWrite => wants_write(sess)

\* C28: the transport adapters consult the engine's advisories before
\* blocking I/O: a read from the transport is issued only when wants_read()
\* is true at that moment and a write only when wants_write() is true, in
\* the Stream adapter and in every read path of the shim's exec loop
\* (read_all_bytes and read_n_bytes).
C28_AdvisoriesConsulted == [][C28_Step]_vars

\* The same for the reads of read_all_bytes and of the Stream alone.
C28_ExceptReadNBytes ==
    [][pc # "read_n" => C28_Step]_vars

(***************************************************************************)
(* C29: the exit status of the shim.                                       *)
(***************************************************************************)
\* The error went through the catch-all arm of handle_err.
ThroughCatchAll == "handle_err" \in Range(trace.steps) /\ exit.reason = ":FIXME:"

\* The process exited while a failure of process_new_packets was pending,
\* without printing a failure string.
SilentExit == trace.pnpErr # None /\ exit.kind = "exited" /\ exit.reason = None

C29_CatchAllNonZero == ThroughCatchAll => exit.status # 0

C29_FlushKeepsFailure == SilentExit => exit.status # 0

\* C29: the exit status of the shim is 0 only on success or on a recognised
\* failure category: a TLS error that reaches the catch-all arm of handle_err
\* ends the process with a non-zero status, and an I/O error while flushing
\* never turns a pending TLS failure into an exit with status 0 and no
\* failure string.
C29_StatusZeroMeansRecognised ==
    /\ C29_CatchAllNonZero
    /\ C29_FlushKeepsFailure
    /\ exit.kind = "exited" /\ exit.status = 0 => exit.reason \notin {None, ":FIXME:"}

(***************************************************************************)
(* SpecArgs: main, from the command line to the connections: the options   *)
(* are taken one at a time, then the configuration is made, then one       *)
(* connection after another is created and run.                            *)
(***************************************************************************)
MaxArgs == 3

BOGO_NACK == 89

\* process::exit(BOGO_NACK)
nack(why) == [kind |-> "exited", status |-> BOGO_NACK, reason |-> why]

\* main, "Not implemented things"
NotImplemented ==
    {"-dtls", "-cipher", "-psk", "-renegotiate-freely", "-false-start", "-fallback-scsv",
     "-fail-early-callback", "-fail-cert-callback", "-install-ddos-callback",
     "-advertise-npn", "-advertise-empty-npn", "-verify-fail", "-expect-channel-id",
     "-send-channel-id", "-select-next-proto", "-select-empty-next-proto",
     "-expect-verify-result", "-send-alert", "-digest-prefs",
     "-use-exporter-between-reads", "-ticket-key", "-tls-unique",
     "-enable-server-custom-extension", "-enable-client-custom-extension",
     "-expect-dhe-group-size", "-use-ticket-callback", "-enable-grease",
     "-enable-channel-id", "-expect-early-data-info", "-expect-cipher-aes",
     "-retain-only-sha256-client-cert-initial", "-expect-draft-downgrade",
     "-allow-unknown-alpn-protos", "-on-initial-tls13-variant",
     "-on-resume-export-early-keying-material", "-on-resume-enable-early-data",
     "-export-early-keying-material", "-handshake-twice", "-on-resume-verify-fail",
     "-reverify-on-resume", "-no-op-extra-handshake", "-expect-peer-cert-file",
     "-no-rsa-pss-rsae-certs", "-ignore-tls13-downgrade", "-allow-hint-mismatch",
     "-wpa-202304", "-cnsa-202407", "-srtp-profiles", "-use-ticket-aead-callback",
     "-signed-cert-timestamps", "-on-initial-expect-peer-cert-file",
     "-resumption-across-names-enabled", "-expect-resumable-across-names",
     "-expect-not-resumable-across-names", "-use-custom-verify-callback"}

\* main, some of the options that are accepted and change nothing ("defaults",
\* "internal openssl details") or are printed as "not checking ...; NYI".
Ignored == {"-ipv6", "-async", "-expect-session-id"}

\* Options with no arm in main; -is-handshaker-supported has one only as the
\* first argument.
Unhandled == {"-no-such-option", "-is-handshaker-supported"}

\* An option with its value (0: it takes none).
Arg(name, value) == [name |-> name, value |-> value]

NoArg == Arg(None, 0)

\* The command lines: each option that main handles in a way of its own, with
\* values on both sides of each test main makes.
Args ==
    {Arg(n, 0) : n \in NotImplemented \cup Ignored \cup Unhandled}
    \cup {Arg(n, 0) : n \in {"-server", "-on-resume-no-ticket", "-new-x509-credential",
                             "-fips-202205", "-print-rustls-provider", "-cert-and-key-file",
                             "-expect-hrr", "-expect-no-hrr", "-expect-session-miss"}}
    \cup {Arg("-tls13-variant", v) : v \in {0, 1, 2}}
    \cup {Arg(n, v) : n \in {"-verify-prefs", "-signing-prefs"}, v \in {2052, 2055, 2056, 0}}
    \cup {Arg("-resume-count", v) : v \in {1, 2}}
    \cup {Arg("-expect-early-data-reason", v) : v \in {1, 2}}

\* Options::new in a build with or without the fips feature.
Options_new(selected_provider) ==
    [side |-> "Client", credentials |-> Credentials_default, resumes |-> 0,
     resume_with_tickets_disabled |-> FALSE, tickets |-> TRUE,
     selected_provider |-> selected_provider, fips_provider |-> FALSE,
     expect_reject_early_data |-> FALSE,
     expect_handshake_kind |-> <<>>,
     expect_handshake_kind_resumed |-> <<{"Resumed"}>>]

\* SelectedProvider::from_env: the values of BOGO_SHIM_PROVIDER a build accepts.
Providers(fips) ==
    IF fips THEN {"AwsLcRs", "AwsLcRsFips", "Ring"} ELSE {"AwsLcRs", "Ring"}

Proceed(o) == [o |-> o, exit |-> Running]
Stop(o, e) == [o |-> o, exit |-> e]

\* main, the match on one option: the options after it, and how the process
\* ends if it ends here. `fips` is the fips feature of the build.
main_arg(o, arg, fips) ==
    CASE arg.name = "-server" -> Proceed([o EXCEPT !.side = "Server"])
      [] arg.name = "-cert-and-key-file" ->
            Proceed([o EXCEPT !.credentials =
                        SetLast(@, [last_mut(@) EXCEPT !.cert_file = "rsa_a",
                                                         !.key_file = "rsa_a"])])
      [] arg.name = "-new-x509-credential" ->
            Proceed([o EXCEPT !.credentials.additional = Append(@, Credential_default)])
      [] arg.name = "-resume-count" -> Proceed([o EXCEPT !.resumes = arg.value])
      [] arg.name = "-expect-hrr" ->
            Proceed([o EXCEPT !.expect_handshake_kind = <<{"FullWithHelloRetryRequest"}>>])
      [] arg.name = "-expect-no-hrr" ->
            Proceed([o EXCEPT !.expect_handshake_kind = <<{"Full"}>>])
      [] arg.name = "-expect-session-miss" ->
            Proceed([o EXCEPT !.expect_handshake_kind_resumed =
                                    <<{"Full", "FullWithHelloRetryRequest"}>>])
      [] arg.name = "-tls13-variant" ->
            IF arg.value # 1 THEN Stop(o, nack("NYI TLS1.3 variant selection"))
            ELSE Proceed(o)
      [] arg.name = "-on-resume-no-ticket" ->
            Proceed([o EXCEPT !.resume_with_tickets_disabled = TRUE])
      [] arg.name = "-signing-prefs" ->
            Proceed([o EXCEPT !.credentials =
                        SetLast(@, [last_mut(@) EXCEPT !.use_signing_scheme = <<arg.value>>])])
      [] arg.name = "-verify-prefs" ->
            IF lookup_scheme(arg.value) = None
            THEN Stop(o, nack("Unsupported signature scheme")) ELSE Proceed(o)
      [] arg.name \in Ignored -> Proceed(o)
      [] arg.name = "-expect-early-data-reason" ->
            IF arg.value = 1 THEN Proceed([o EXCEPT !.expect_reject_early_data = TRUE])
            ELSE Stop(o, quit_err("NYI early data reason"))
      [] arg.name = "-fips-202205" ->
            IF fips /\ o.selected_provider = "AwsLcRsFips"
            THEN Proceed([o EXCEPT !.fips_provider = TRUE])
            ELSE Stop(o, nack("Not a FIPS build"))
      [] arg.name \in NotImplemented -> Stop(o, nack("NYI option"))
      [] arg.name = "-print-rustls-provider" -> Stop(o, quit("rustls provider is"))
      [] OTHER -> Stop(o, quit_err("unhandled option"))

\* The credentials make_server_cfg / make_client_cfg builds a signer for.
SignersOf(o) ==
    IF o.side = "Server" THEN <<o.credentials.default>>
    ELSE IF ~credentials_configured(o.credentials) THEN <<>>
    ELSE (IF configured(o.credentials.default) THEN <<o.credentials.default>> ELSE <<>>)
         \o o.credentials.additional

RECURSIVE LoadSigners(_)
\* The credentials are loaded in order: load_from_file (which panics when the
\* files cannot be read), then lookup_scheme of the signing preference.
LoadSigners(creds) ==
    IF creds = <<>> THEN Running
    ELSE IF ~Loads(Head(creds)) THEN Panicked
    ELSE IF /\ Head(creds).use_signing_scheme # <<>>
            /\ lookup_scheme(Head(creds).use_signing_scheme[1]) = None
         THEN nack("Unsupported signature scheme")
         ELSE LoadSigners(Tail(creds))

\* make_server_cfg / make_client_cfg: the configuration is made, or the
\* process ends.
make_cfg(o) ==
    IF o.side = "Server" /\ o.credentials.additional # <<>> THEN Panicked
    ELSE LoadSigners(SignersOf(o))

\* How exec can end: it returns, or the process ends in handle_err, in flush,
\* in quit_err or in a panic.
ExitsBeforeKindCheck ==
    {quit(None), quit_err("Early data was not accepted, but we expect the opposite")}

ExecOutcomes ==
    {Returned, Panicked, quit_err(":CLOSE_WITHOUT_CLOSE_NOTIFY:")}
    \cup ExitsBeforeKindCheck
    \cup {handle_err(BaseOpts, e) :
            e \in {"InappropriateHandshakeMessage", "AlertReceived_DecompressionFailure",
                   "AlertReceived_Other", "DecryptError"}}

\* HandshakeKind, and no kind: the connection ended before its handshake did.
HandshakeKinds == {"Full", "FullWithHelloRetryRequest", "Resumed"}

handshake_kind_unchecked(o, kind, outcome) == outcome

\* exec, the check of handshake_kind() once is_handshaking() is false: the
\* assertion fails unless an exit of the same iteration came first.
handshake_kind_check(o, kind, outcome) ==
    IF kind = None \/ o.expect_handshake_kind = <<>> \/ kind \in o.expect_handshake_kind[1]
    THEN outcome
    ELSE IF outcome \in ExitsBeforeKindCheck THEN outcome ELSE Panicked

\* What is known of the last connection run: its number, the kind of its
\* handshake and whether the assertion on the kind failed.
NoRun == [count |-> -1, kind |-> None, refused |-> FALSE]

InitArgs ==
    /\ peer \in [fips : BOOLEAN]
    /\ opts \in {Options_new(p) : p \in Providers(peer.fips)}
    /\ sess = None
    /\ conn = FreshConn
    /\ pc = "args"
    /\ loc = [taken |-> 0, i |-> 0]
    /\ exit = Running
    /\ trace = [last |-> NoArg, connections |-> 0, run |-> NoRun]
    /\ srv = None /\ cli = None /\ now = StartTime

\* main: -is-handshaker-supported as the first argument.
MainHandshakerSupported ==
    /\ pc = "args" /\ loc.taken = 0
    /\ exit' = quit("No")
    /\ pc' = "done"
    /\ trace' = [trace EXCEPT !.last = Arg("-is-handshaker-supported", 0)]
    /\ loc' = [loc EXCEPT !.taken = 1]
    /\ UNCHANGED <<opts, sess, conn, peer, cacheVars>>

\* main: the next option of the command line.
MainArg(arg) ==
    /\ pc = "args" /\ loc.taken < MaxArgs
    /\ loc.taken = 0 => arg.name # "-is-handshaker-supported"
    /\ arg.name = "-new-x509-credential" =>
            Len(opts.credentials.additional) < MaxAdditional
    /\ LET r == main_arg(opts, arg, peer.fips)
       IN  /\ opts' = r.o
           /\ exit' = r.exit
           /\ pc' = IF r.exit = Running THEN "args" ELSE "done"
    /\ loc' = [loc EXCEPT !.taken = @ + 1]
    /\ trace' = [trace EXCEPT !.last = arg]
    /\ UNCHANGED <<sess, conn, peer, cacheVars>>

\* main: the command line is used up; the configuration is made.
MainMakeCfg ==
    /\ pc = "args"
    /\ exit' = make_cfg(opts)
    /\ pc' = IF make_cfg(opts) = Running THEN "session" ELSE "done"
    /\ UNCHANGED <<opts, sess, conn, loc, peer, trace, cacheVars>>

\* main: make_session
MainMakeSession ==
    /\ pc = "session"
    /\ trace' = [trace EXCEPT !.connections = @ + 1]
    /\ pc' = "exec"
    /\ UNCHANGED <<opts, sess, conn, loc, exit, peer, cacheVars>>

\* main: exec, and the rest of the loop body after it.
MainExec(ending, kind) ==
    /\ pc = "exec"
    /\ LET outcome == handshake_kind_check(opts, kind, ending)
       IN /\ trace' = [trace EXCEPT !.run =
                        [count |-> loc.i, kind |-> kind,
                         refused |-> outcome = Panicked /\ ending # Panicked]]
          /\ IF outcome # Returned
             THEN exit' = outcome /\ pc' = "done" /\ UNCHANGED <<opts, loc>>
             ELSE LET o == IF opts.resume_with_tickets_disabled
                           THEN [opts EXCEPT !.tickets = FALSE] ELSE opts
                      made == IF opts.resume_with_tickets_disabled THEN make_cfg(o)
                              ELSE Running
                  IN  /\ opts' = [o EXCEPT !.expect_handshake_kind =
                                                o.expect_handshake_kind_resumed]
                      /\ loc' = [loc EXCEPT !.i = @ + 1]
                      /\ IF made # Running THEN exit' = made /\ pc' = "done"
                         ELSE IF loc.i < opts.resumes
                              THEN pc' = "session" /\ UNCHANGED exit
                              ELSE exit' = Returned /\ pc' = "done"
    /\ UNCHANGED <<sess, conn, peer, cacheVars>>

NextArgs ==
    \/ MainHandshakerSupported
    \/ \E arg \in Args : MainArg(arg)
    \/ MainMakeCfg
    \/ MainMakeSession
    \/ \E ending \in ExecOutcomes, kind \in HandshakeKinds \cup {None} :
            MainExec(ending, kind)

SpecArgs == InitArgs /\ [][NextArgs]_vars

(***************************************************************************)
(* C30: the distinguished exit status.                                     *)
(***************************************************************************)
\* The codes lookup_scheme knows.
SupportedSchemeCodes == {1025, 1281, 1537, 1027, 1283, 1539, 2052, 2053, 2054, 2055}

UnsupportedPref(cred) ==
    cred.use_signing_scheme # <<>> /\ cred.use_signing_scheme[1] \notin SupportedSchemeCodes

\* The provider in use is not the FIPS one (never, in a build without the
\* fips feature).
NotRunningFips == ~(peer.fips /\ opts.selected_provider = "AwsLcRsFips")

Nacked == exit.status = BOGO_NACK /\ exit.kind = "exited" /\ trace.connections = 0

\* What the last option taken from the command line asks for is not there.
LastArgUnavailable ==
    \/ trace.last.name \in NotImplemented
    \/ trace.last.name = "-tls13-variant" /\ trace.last.value # 1
    \/ trace.last.name = "-verify-prefs" /\ trace.last.value \notin SupportedSchemeCodes
    \/ trace.last.name = "-fips-202205" /\ NotRunningFips

LastArgUnhandled ==
    \/ trace.last.name = "-no-such-option"
    \/ trace.last.name = "-is-handshaker-supported" /\ loc.taken > 1

C30_WitnessOption == Nacked /\ trace.last.name = "-dtls" /\ loc.taken = MaxArgs

C30_WitnessVerifyPrefs == Nacked /\ trace.last = Arg("-verify-prefs", 2056)

C30_WitnessFips == Nacked /\ trace.last.name = "-fips-202205" /\ ~peer.fips

C30_WitnessFipsProvider == pc = "exec" /\ opts.fips_provider

C30_WitnessUnhandled == LastArgUnhandled /\ exit.status = 1 /\ loc.taken = MaxArgs

C30_WitnessResumed == pc = "done" /\ trace.connections = 2 /\ exit.status \in {0, 1}

(***************************************************************************)
(* C31: the client store and the key-exchange hint.                        *)
(***************************************************************************)
\* The newest value the client stored, as the store holds it.
NewestStored(c) ==
    [id |-> Len(c.born), epoch |-> c.born[Len(c.born)] - c.delay,
     lifetime |-> SessionLifetime]

C31_Step ==
    /\ kx_hint(cli') = <<>> /\ storage_kx_hint(cli') = <<>>
    /\ cli'.offer.group \in {None, "first_configured"}
    /\ cli'.last.op = "set_kx_hint" =>
            cli'.tls12 = cli.tls12 /\ cli'.tickets = cli.tickets
    /\ Len(cli'.born) > Len(cli.born) =>
            \/ /\ tls12_session(cli') = <<NewestStored(cli')>>
               /\ cli'.tickets = cli.tickets
            \/ /\ take_tls13_ticket(cli').found = <<NewestStored(cli')>>
               /\ cli'.tls12 = cli.tls12
    /\ cli'.used # cli.used =>
            /\ cli.tickets # <<>> /\ cli'.last.found = <<cli.tickets[Len(cli.tickets)]>>
            /\ cli'.tls12 = cli.tls12
    /\ cli'.last.op = "tls12_session" =>
            cli.tickets = <<>> /\ cli'.last.found = cli.tls12

\* C31: ClientCacheWithoutKxHints never remembers a key-exchange-group hint:
\* after any sequence of store operations, set_kx_hint included, kx_hint
\* returns None, so every connection takes the no-hint fallback; TLS1.2
\* sessions and TLS1.3 tickets are still stored in and returned from the
\* wrapped cache, kept apart from each other.
C31_NoKxHint == [][C31_Step]_vars

\* C31, reached: a connection resumed from a ticket after a hint was given
\* while a TLS1.2 session is also stored.
C31_Witness ==
    /\ cli.last.op = "take_tls13_ticket" /\ cli.offer.kind = "Resumed"
    /\ cli.offer.group = "first_configured"
    /\ cli.tls12 # <<>>

C31_WitnessHintGiven == cli.last.op = "set_kx_hint" /\ cli.tls12 # <<>> /\ cli.tickets # <<>>

(***************************************************************************)
(* C32: the connections of one process and the kind of their handshakes.   *)
(***************************************************************************)
\* The last connection ran to the end of exec.
RunReturned == trace.run.count >= 0 /\ exit \in {Running, Returned} /\ pc # "exec"

\* The kinds a connection after the first may have: Resumed, or after
\* -expect-session-miss the two kinds of full handshake.
ExpectedOnResume ==
    IF opts.expect_handshake_kind_resumed = <<{"Resumed"}>> THEN {"Resumed"}
    ELSE {"Full", "FullWithHelloRetryRequest"}

C32_WitnessRefused ==
    /\ trace.run.refused /\ trace.run.count = 1 /\ trace.run.kind = "Full"
    /\ ExpectedOnResume = {"Resumed"}

C32_WitnessFirstUnchecked ==
    /\ RunReturned /\ trace.run.count = 0 /\ trace.run.kind = "Resumed"

C32_WitnessFirstRefused ==
    /\ trace.run.refused /\ trace.run.count = 0 /\ trace.run.kind = "Full"

(***************************************************************************)
(* C33: what the server store keeps.                                       *)
(***************************************************************************)
\* ServerSessionMemoryCache::can_cache and ServerCacheWithResumptionDelay::can_cache
storage_can_cache(entries) == TRUE

can_cache(s) == storage_can_cache(s.entries)

\* The last operation was a put of the newest session the server issued.
JustPut == srv.last.op = "put" /\ srv.born # <<>>

\* The session value found under the key of the last operation.
StoredNow == read_bytes(get(srv, srv.last.key)[1])[1]

\* C33: put stores, under the same key, a value that decodes to the original
\* session value with creation_time_sec lowered by exactly delay and every
\* other field unchanged, for every delay a u32 can hold; get, take and
\* can_cache return what the wrapped store returns and change nothing else.
C33_PutRewindsByDelay ==
    /\ JustPut =>
          /\ ~srv.panicked
          /\ get(srv, srv.last.key) # <<>>
          /\ StoredNow.id = Len(srv.born)
          /\ StoredNow.kind \in {"Tls12", "Tls13"}
          /\ StoredNow.creation_time_sec = srv.born[Len(srv.born)] - srv.delay
    /\ srv.last.op = "get" => srv.last.found = storage_get(srv.entries, srv.last.key)
    /\ srv.last.op = "take" => storage_get(srv.entries, srv.last.key) = <<>>
    /\ can_cache(srv) = storage_can_cache(srv.entries)

\* The same for the puts whose subtraction does not go below zero.
C33_WithoutUnderflow ==
    (\A i \in DOMAIN srv.born : srv.delay <= srv.born[i]) => C33_PutRewindsByDelay

(***************************************************************************)
(* The one-shot actions of exec.  A run with every one of them asked for,  *)
(* against the honest peer.                                                *)
(***************************************************************************)
\* The length asked of -export-keying-material.
ExportLen == 2

OnceOpts ==
    {[BaseOpts EXCEPT !.queue_data = qd, !.only_write_one_byte_after_handshake = ob,
                      !.export_keying_material = ekm, !.export_traffic_secrets = ets,
                      !.send_key_update = ku, !.shut_down_after_handshake = sd] :
        qd \in BOOLEAN, ob \in BOOLEAN, ekm \in {0, ExportLen}, ets \in BOOLEAN,
        ku \in BOOLEAN, sd \in BOOLEAN}

InitOnce == InitRun(OnceOpts)

NextOnce ==
    \/ ShimNext
    \/ \E t \in Templates : HonestRec(t) /\ PeerSend(t)
    \/ PeerClose

SpecOnce == InitOnce /\ [][NextOnce]_vars

\* How many of the chunks are the test message.
RECURSIVE CountHello(_)
CountHello(chunks) ==
    IF chunks = <<>> THEN 0
    ELSE (IF Head(chunks) = Hello[1] THEN 1 ELSE 0) + CountHello(Tail(chunks))

\* The plaintext of every record of the log, in order.
RECURSIVE PlainOf(_)
PlainOf(log) ==
    IF log = <<>> THEN <<>> ELSE Head(log).data \o PlainOf(Tail(log))

\* The copies of the test message the connection holds or has sent.
HelloCopies == CountHello(sess.plainOut) + CountHello(PlainOf(SealLog))

\* The records of the log that carry the message.
Sealed(msg) == Len(SelectSeq(SealLog, LAMBDA r : r.msg = msg))

\* C34: within one run of exec each one-shot action happens at most once,
\* however often the loop iterates: the test message is queued at most once
\* (at the top of the loop or in the one-byte block, never both), close-notify
\* is sent at most once, one export is made (keying material or traffic
\* secrets), one key update is requested; and close-notify, the export and
\* refresh_traffic_keys are issued only while is_handshaking() is false.
C34_OneShotActionsOnce ==
    /\ trace.shots.message <= 1
    /\ trace.shots.shutdown <= 1
    /\ trace.shots.export <= 1
    /\ trace.shots.key_update <= 1
    /\ ~trace.shots.handshaking
    /\ HelloCopies <= trace.shots.message
    /\ Sealed("KeyUpdateRequested") <= trace.shots.key_update
    /\ Sealed("close_notify") <= trace.shots.shutdown
    /\ loc.sent_message <=> trace.shots.message = 1
    /\ loc.sent_exporter <=> trace.shots.export = 1

\* C34, reached: all four were done, the export being the keying material
\* though the traffic secrets were asked for too, and the loop went on to
\* the end of the stream.
C34_Witness ==
    /\ trace.shots.message = 1
    /\ trace.shots.shutdown = 1
    /\ trace.shots.export = 1
    /\ trace.shots.key_update = 1
    /\ opts.export_keying_material > 0 /\ opts.export_traffic_secrets
    /\ HelloCopies = 1
    /\ Sealed("KeyUpdateRequested") = 1
    /\ trace.readLog # <<>>
    /\ exit = Returned

\* C34, reached: the message was not queued at the top of the loop though
\* -queue-data asked for it, and went out once in the one-byte block.
C34_WitnessOneByte ==
    /\ opts.queue_data /\ opts.only_write_one_byte_after_handshake
    /\ trace.shots.message = 1
    /\ HelloCopies = 1
    /\ conn.partial = 1
    /\ loc.quench_writes

\* C34, reached: the loop iterated while the handshake was going, with the
\* key update, the export and close-notify asked for and none of them done.
C34_WitnessHandshaking ==
    /\ is_handshaking(sess) /\ pc = "top" /\ sess.hs # trace.start.hs
    /\ opts.send_key_update /\ opts.shut_down_after_handshake
    /\ opts.export_traffic_secrets
    /\ trace.shots.key_update = 0 /\ trace.shots.export = 0
    /\ trace.shots.shutdown = 0

(***************************************************************************)
(* C35: the test message of a resumed client with early data.              *)
(***************************************************************************)
\* The slices of the test message among the chunks.
IsHelloSlice(ch) == ch.b = Hello[1].b /\ "off" \in DOMAIN ch

HelloSlices(chunks) == SelectSeq(chunks, IsHelloSlice)

\* What went out as early data, and the slices of the message the normal
\* writer was given (buffered, or framed after the handshake).
EarlyPlain ==
    PlainOf(SelectSeq(SealLog, LAMBDA r : r.typ = "ApplicationData"
                                            /\ r.epoch = EarlyDataEpoch))

WriterPlain ==
    HelloSlices(PlainOf(SelectSeq(SealLog, LAMBDA r : r.typ = "ApplicationData"
                                                        /\ r.epoch # EarlyDataEpoch))
                \o sess.plainOut)

\* The chunks are the bytes from..to of the message, each once, in order.
RECURSIVE Covers(_, _, _)
Covers(chunks, from, to) ==
    IF chunks = <<>> THEN from = to
    ELSE /\ IsHelloSlice(Head(chunks))
         /\ Head(chunks).off = from
         /\ Head(chunks).n > 0
         /\ Covers(Tail(chunks), from + Head(chunks).n, to)

EarlyClient == opts.side = "Client" /\ opts.enable_early_data

\* C35: on a resumed client connection with early data enabled the five
\* bytes of the test message are queued exactly once in total: what the
\* early-data writer accepted (a prefix of length len, 0 to 5) went out as
\* early data and exactly the rest, [len..], was given to the normal writer;
\* no byte twice, none dropped.  On the first connection (count 0) nothing
\* is written as early data.
C35_MessageQueuedOnce ==
    EarlyClient =>
        /\ loc.count = 0 => EarlyPlain = <<>>
        /\ ~loc.sent_message => EarlyPlain = <<>> /\ WriterPlain = <<>>
        /\ loc.sent_message /\ loc.count > 0 =>
              /\ Len(EarlyPlain) <= 1 /\ Len(WriterPlain) <= 1
              /\ Covers(EarlyPlain \o WriterPlain, 0, Hello[1].n)

\* C35, reached: the early-data writer took two bytes, the normal writer
\* got three.
C35_Witness ==
    /\ EarlyClient /\ loc.count > 0 /\ loc.sent_message
    /\ Len(EarlyPlain) = 1 /\ EarlyPlain[1].n = 2
    /\ Len(WriterPlain) = 1 /\ WriterPlain[1].n = 3 /\ WriterPlain[1].off = 2

\* C35, reached: the early-data writer took nothing.
C35_WitnessNone ==
    /\ EarlyClient /\ loc.count > 0 /\ loc.sent_message
    /\ EarlyPlain = <<>> /\ WriterPlain = Hello

\* C35, reached: the early-data writer took all of it, and the handshake
\* ended.
C35_WitnessAll ==
    /\ EarlyClient /\ loc.count > 0 /\ loc.sent_message
    /\ EarlyPlain = Hello /\ WriterPlain = <<>>
    /\ ~is_handshaking(sess)

\* C35, reached: the first connection of a run that queues the message on
\* resumption completed its handshake with nothing written as early data.
C35_WitnessFirstConnection ==
    /\ EarlyClient /\ loc.count = 0 /\ opts.queue_data_on_resume
    /\ ~loc.sent_message /\ ~is_handshaking(sess) /\ EarlyPlain = <<>>

(***************************************************************************)
(* C36: the echo of exec.                                                  *)
(***************************************************************************)
\* The peer's data is bytes of value 7: the echo of it is bytes of value 248.
IsPeerData(ch) == ch.b = 7

IsEcho(ch) == ch.b = 255 - 7

\* The echoed bytes the writer holds or has framed, in order.
WriterEchoes ==
    SelectSeq(PlainOf(SelectSeq(SealLog, LAMBDA r : r.typ = "ApplicationData"
                                                      /\ r.epoch # EarlyDataEpoch))
              \o sess.plainOut, IsEcho)

\* The writer has taken all it was given: the connection was not closed and
\* has not failed.
WriterOpen == sess.hs # "Closed" /\ sess.err = None /\ exit # Panicked

\* C36: every plaintext byte exec reads from the reader, and on a server
\* with early data every byte read from the early-data reader, is written
\* back to the writer exactly once, in the order read and XORed with 0xff;
\* an iteration whose read would block echoes nothing, and a read of 0
\* bytes ends the run without an echo.
C36_EchoesWhatWasRead ==
    /\ trace.echo = Xor(trace.taken)
    /\ SumN(trace.taken) = trace.edRead + SumN(trace.readLog)
    /\ \A i \in DOMAIN trace.taken : IsPeerData(trace.taken[i])
    /\ WriterOpen => WriterEchoes = Xor(trace.taken)
    /\ trace.ended = "zero" => exit = Returned /\ pc = "done"

\* C36, reached: early data and then data of the connection were read, and
\* the writer has the echo of both, in that order.
C36_Witness ==
    /\ opts.side = "Server" /\ opts.enable_early_data
    /\ trace.edRead > 1
    /\ trace.readLog # <<>>
    /\ Len(trace.taken) >= 2
    /\ trace.taken[1].n > 1
    /\ trace.taken[Len(trace.taken)].n = 1
    /\ WriterOpen
    /\ WriterEchoes = Xor(trace.taken)

\* C36, reached: data was read and echoed, and the run ended on a read of 0
\* bytes.
C36_WitnessZero ==
    /\ trace.readLog # <<>>
    /\ trace.echo = Xor(trace.taken)
    /\ trace.ended = "zero"
    /\ exit = Returned

\* C36, reached: bytes were echoed, the writer has all of them, and the loop
\* went round again with nothing to read.
C36_WitnessWouldBlock ==
    /\ pc = "post" /\ ReaderResult(sess) = "WouldBlock"
    /\ trace.taken # <<>>
    /\ WriterOpen
    /\ WriterEchoes = Xor(trace.taken)

(***************************************************************************)
(* C37: the loop of Stream::prepare_read.  The calls of a stream run to    *)
(* their end: a step of a call that can be taken is taken.                 *)
(***************************************************************************)
StreamStep ==
    \/ PriorWantsWrite
    \/ AfterPriorIo
    \/ PrepareRead
    \/ StreamReader
    \/ CioWrite

\* complete_io is at its read and the read does not block: CioRead can be
\* taken.
CioReadEnabled ==
    pc = "cio_read" /\ (~loc.cio.eof /\ wants_read(sess) => ~ReadBlocks(conn))

\* Weak fairness of the steps of a call; for CioRead it is written out, with
\* the condition under which the step can be taken as a state predicate.
SpecStreamFair ==
    /\ SpecStream
    /\ WF_vars(StreamStep)
    /\ []<>(~CioReadEnabled) \/ []<><<CioRead>>_vars

\* The call is in the loop of prepare_read: at its head, or in the
\* complete_io the loop called.
InPrepareRead ==
    \/ pc = "prepare_read"
    \/ pc \in {"cio_write", "cio_read"} /\ loc.cio.ret = "prepare_read"

\* The transport will deliver no more than it holds.
TransportEnded == conn.peerEof \/ conn.reset

C37_Step ==
    /\ pc = "prepare_read" /\ pc' # pc =>
          /\ ~wants_read(sess) => pc' = "reader"
          /\ wants_read(sess) => pc' = "cio_write" /\ loc'.cio.ret = "prepare_read"
    /\ InPrepareRead /\ pc # "prepare_read" /\ pc' \notin {"cio_write", "cio_read"} =>
          \/ pc' = "idle" /\ ~trace'.result.ok /\ trace'.result.op = loc.op
          \/ pc' = "reader" /\ loc'.cio.rdlen = 0
          \/ pc' = "prepare_read" /\ loc'.cio.rdlen > 0
    /\ pc' = "reader" /\ pc # "reader" => pc = "prepare_read" \/ InPrepareRead

\* C37: Stream::prepare_read terminates.  Its loop ends as soon as
\* wants_read() is false, a complete_io call reads 0 bytes or returns an
\* error, and goes on calling complete_io while the connection wants to read
\* and bytes were read; so on a transport that has reached its end the call
\* leaves the loop.
C37_PrepareReadTerminates ==
    /\ [][C37_Step]_vars
    /\ (InPrepareRead /\ TransportEnded) ~> ~InPrepareRead

\* C37, reached: a read on a connection that wanted to read found the
\* transport at its end: complete_io read 0 bytes and the call returned.
C37_Witness ==
    /\ CallReturned /\ loc.op = "read" /\ trace.prior = "Ok"
    /\ conn.peerEof /\ conn.inb = <<>>
    /\ loc.cio.ret = "prepare_read" /\ loc.cio.eof /\ loc.cio.rdlen = 0
    /\ wants_read(sess)
    /\ ~trace.result.ok /\ trace.result.err = "UnexpectedEof"

\* C37, reached: complete_io read bytes that gave no plaintext, the
\* connection still wants to read and the loop calls it again.
C37_WitnessAgain ==
    /\ pc = "prepare_read" /\ loc.cio.ret = "prepare_read" /\ loc.cio.rdlen > 0
    /\ wants_read(sess)

\* C37, reached: the loop ended because the connection has plaintext.
C37_WitnessPlaintext ==
    /\ pc = "reader" /\ loc.cio.ret = "prepare_read" /\ loc.cio.rdlen > 0
    /\ ~wants_read(sess) /\ sess.plainIn # <<>>

(***************************************************************************)
(* C38: StreamOwned.  It owns the connection and the transport; each of    *)
(* its calls makes a Stream over the two (as_stream) and calls that.       *)
(***************************************************************************)
\* StreamOwned::new
StreamOwned_new(c, k) == [conn |-> c, sock |-> k]

\* StreamOwned::as_stream: Stream { conn: &mut self.conn, sock: &mut self.sock }
as_stream_of_new_connection(own) == [conn |-> make_session(opts), sock |-> own.sock]

as_stream(own) == [conn |-> own.conn, sock |-> own.sock]

\* StreamOwned::into_parts
into_parts(own) == <<own.conn, own.sock>>

\* The method of Stream each method of StreamOwned calls.
StreamOwned_method(op) ==
    CASE op = "read" -> "read"
      [] op = "fill_buf" -> "fill_buf"
      [] op = "consume" -> "consume"
      [] op = "write" -> "write"
      [] op = "flush" -> "flush"

OwnedOps == {"read", "fill_buf", "write", "flush"}

\* Stream::consume: self.conn.reader().consume(amt), of plaintext that a
\* fill_buf has shown.
StreamConsumeOn(c, k, amt) ==
    /\ pc = "idle"
    /\ trace.calls < MaxCalls
    /\ amt <= SumN(c.plainIn)
    /\ sess' = [c EXCEPT !.plainIn = DropBytes(@, amt)]
    /\ conn' = k
    /\ loc' = [op |-> "consume", buf |-> <<>>, size |-> amt, cio |-> NoCio]
    /\ trace' = Returns([trace EXCEPT !.calls = @ + 1, !.prior = "none",
                                      !.touched = TRUE, !.accepted = <<>>,
                                      !.masked = FALSE,
                                      !.prev = [op |-> trace.result.op,
                                                masked |-> trace.masked,
                                                queued |-> trace.queued,
                                                accepted |-> trace.accepted]],
                        "consume", TRUE, amt, None, sess')
    /\ UNCHANGED <<opts, pc, exit, peer, cacheVars>>

StreamConsume(amt) == StreamConsumeOn(sess, conn, amt)

\* The stream that owns the connection and the transport.
Owned == StreamOwned_new(sess, conn)

\* StreamOwned::read, fill_buf, write, flush: self.as_stream().op(..)
OwnedCall(op, buf, size) ==
    LET st == as_stream(Owned)
    IN  StreamCallOn(st.conn, st.sock, StreamOwned_method(op), buf, size)

\* StreamOwned::consume: self.as_stream().consume(amt)
OwnedConsume(amt) ==
    LET st == as_stream(Owned)
    IN  /\ StreamOwned_method("consume") = "consume"
        /\ StreamConsumeOn(st.conn, st.sock, amt)

\* StreamOwned::into_parts: the stream is gone, its parts are the caller's.
NoParts == [parts |-> <<>>]

IntoParts ==
    /\ pc = "idle"
    /\ trace.calls > 0
    /\ cli' = [parts |-> into_parts(Owned)]
    /\ pc' = "done"
    /\ UNCHANGED <<opts, sess, conn, loc, exit, peer, trace, srv, now>>

InitOwned ==
    /\ opts \in {[BaseOpts EXCEPT !.side = sd] : sd \in {"Client", "Server"}}
    /\ sess = make_session(opts)
    /\ conn = FreshConn
    /\ pc = "idle"
    /\ loc = FreshCall
    /\ exit = Running
    /\ peer = FreshPeer
    /\ trace = FreshStreamTrace
    /\ srv = NewServerCache(opts.resumption_delay, TRUE)
    /\ cli = NoParts
    /\ now = StartTime

NextOwned ==
    \/ \E op \in OwnedOps, buf \in StreamBufs, size \in {0, 1, 8} :
            OwnedCall(op, buf, size)
    \/ \E amt \in {1} : OwnedConsume(amt)
    \/ IntoParts
    \/ PriorWantsWrite
    \/ AfterPriorIo
    \/ PrepareRead
    \/ StreamReader
    \/ CioWrite
    \/ CioRead
    \/ \E t \in Templates : StreamPeer(t) /\ PeerSend(t)
    \/ PeerClose
    \/ PeerReset

SpecOwned == InitOwned /\ [][NextOwned]_vars

\* A step of a Stream over the same connection and transport: a call of
\* read, fill_buf, consume, write or flush begins, or a call goes on, or the
\* peer acts.
NextOfStream ==
    \/ \E op \in OwnedOps, buf \in StreamBufs, size \in {0, 1, 8} :
            StreamCall(op, buf, size)
    \/ \E amt \in {1} : StreamConsume(amt)
    \/ PriorWantsWrite
    \/ AfterPriorIo
    \/ PrepareRead
    \/ StreamReader
    \/ CioWrite
    \/ CioRead
    \/ \E t \in Templates : StreamPeer(t) /\ PeerSend(t)
    \/ PeerClose
    \/ PeerReset

\* into_parts gave the connection and the transport as they are.
PartsAsTheyAre ==
    /\ pc = "idle" /\ pc' = "done"
    /\ cli'.parts = <<sess, conn>>
    /\ UNCHANGED <<opts, sess, conn, loc, exit, peer, trace, srv, now>>

\* C38: for any sequence of read, fill_buf, consume, write and flush calls a
\* StreamOwned returns the same results and leaves the connection and the
\* transport in the same state as a Stream built over the same connection
\* and transport: every step of the StreamOwned is a step of that Stream.
\* into_parts returns exactly that connection and transport.
C38_OwnedIsStream == [][NextOfStream \/ PartsAsTheyAre]_vars

\* C38, reached: a fill_buf, a consume and a write were made on the
\* StreamOwned, the write returned Ok(5), and into_parts gave back the
\* connection that holds the record and the transport.
C38_Witness ==
    /\ pc = "done"
    /\ trace.calls = 3
    /\ trace.prev.op = "consume"
    /\ trace.result.op = "write" /\ trace.result.ok /\ trace.result.len = 5
    /\ cli.parts = <<sess, conn>>
    /\ ~is_handshaking(cli.parts[1])

\* C38, reached: a read on the StreamOwned returned the peer's byte.
C38_WitnessRead ==
    /\ pc = "idle" /\ trace.result.op = "read"
    /\ trace.result.ok /\ trace.result.len = 1
    /\ cli = NoParts

(***************************************************************************)
(* C39: the three test compression algorithms, compress then decompress.   *)
(***************************************************************************)
\* The longest message compressed.
MaxPlain == 3

\* The messages: every sequence of up to MaxPlain bytes out of three values.
PlainInputs == UNION {[1..n -> {0, 5, 6}] : n \in 0..MaxPlain}

\* The values the random byte takes here.
RandomBytes == {0, 1, 255}

CompressOk(output) == [ok |-> TRUE, output |-> output]

\* assert_eq! failed, or the slice [..2] is out of range.
CompressPanics == [ok |-> FALSE, output |-> <<>>]

\* ShrinkingAlgorithm::compress: the input begins with two zero bytes, which
\* are dropped.
ShrinkingAlgorithm_compress(input) ==
    IF Len(input) < 2 \/ Take(input, 2) # <<0, 0>> THEN CompressPanics
    ELSE CompressOk(Drop(input, 2))

\* ExpandingAlgorithm::compress: 1, 2, 3, 4 are put in front.
ExpandingAlgorithm_compress_short(input) == CompressOk(<<1, 2, 3>> \o input)

ExpandingAlgorithm_compress(input) == CompressOk(<<1, 2, 3, 4>> \o input)

\* RandomAlgorithm::compress: a random byte is put in front.
RandomAlgorithm_compress(input, random_byte) == CompressOk(<<random_byte>> \o input)

compress(alg, input, random_byte) ==
    CASE alg = 65281 -> ShrinkingAlgorithm_compress(input)
      [] alg = 65282 -> ExpandingAlgorithm_compress(input)
      [] OTHER -> RandomAlgorithm_compress(input, random_byte)

InitComp ==
    /\ opts \in {[side |-> sd, install_cert_compression_algs |-> "All"] :
                    sd \in {"Client", "Server"}}
    /\ sess = None
    /\ conn = FreshConn
    /\ pc = "plain"
    /\ loc = FreshLoc
    /\ exit = Running
    /\ peer = None
    /\ trace = [alg |-> 0, x |-> <<>>, random_byte |-> 0, compressed |-> CompressOk(<<>>),
                result |-> None]
    /\ srv = None /\ cli = None /\ now = StartTime

\* One side compresses its certificate message x.
Compress(alg, x, random_byte) ==
    /\ pc = "plain"
    /\ alg = 65283 \/ random_byte = 0
    /\ LET z == compress(alg, x, random_byte)
       IN  /\ trace' = [trace EXCEPT !.alg = alg, !.x = x, !.random_byte = random_byte,
                                     !.compressed = z]
           /\ pc' = IF z.ok THEN "compressed" ELSE "done"
           /\ exit' = IF z.ok THEN exit ELSE Panicked
    /\ UNCHANGED <<opts, sess, conn, loc, peer, cacheVars>>

\* The other side decompresses it into a buffer of the length of x, not yet
\* written (every byte 7).
DecompressInto ==
    /\ pc = "compressed"
    /\ trace' = [trace EXCEPT !.result =
                    decompress(trace.alg, trace.compressed.output,
                               [i \in 1..Len(trace.x) |-> 7])]
    /\ pc' = "decompressed"
    /\ UNCHANGED <<opts, sess, conn, loc, exit, peer, cacheVars>>

NextComp ==
    \/ \E alg \in {65281, 65282, 65283}, x \in PlainInputs, random_byte \in RandomBytes :
            Compress(alg, x, random_byte)
    \/ DecompressInto

SpecComp == InitComp /\ [][NextComp]_vars

BeginsWithTwoZeros(x) == Len(x) >= 2 /\ x[1] = 0 /\ x[2] = 0

\* C39: for each of the three test compression algorithms, decompressing
\* compress(x) into a buffer of the length of x succeeds and gives x back:
\* for the expanding and the random algorithm for every x (and every value
\* of the random byte), for the shrinking algorithm for every x that begins
\* with two zero bytes (compress takes no other x).
C39_RoundTrip ==
    /\ pc = "decompressed" => trace.result.ok /\ trace.result.output = trace.x
    /\ pc = "compressed" /\ trace.alg = 65281 => BeginsWithTwoZeros(trace.x)
    /\ exit = Panicked => trace.alg = 65281 /\ ~BeginsWithTwoZeros(trace.x)

\* C39, reached: the shrinking algorithm gave back 0, 0, 5.
C39_Witness ==
    /\ pc = "decompressed" /\ trace.alg = 65281
    /\ trace.x = <<0, 0, 5>>
    /\ trace.compressed.output = <<5>>
    /\ trace.result.ok /\ trace.result.output = trace.x

\* C39, reached: the random algorithm gave back a message that itself begins
\* with the byte 0, under the random byte 255.
C39_WitnessRandom ==
    /\ pc = "decompressed" /\ trace.alg = 65283
    /\ trace.random_byte = 255 /\ trace.x = <<0, 6>>
    /\ trace.result.ok /\ trace.result.output = trace.x

\* C39, reached: the expanding algorithm gave back the empty message.
C39_WitnessExpanding ==
    /\ pc = "decompressed" /\ trace.alg = 65282
    /\ trace.x = <<>> /\ trace.compressed.output = <<1, 2, 3, 4>>
    /\ trace.result.ok /\ trace.result.output = <<>>

(***************************************************************************)
(* C40: ResolvesCertChainByCaName::resolve on any ClientHello.             *)
(***************************************************************************)
\* The most names a certificate_authorities extension carries here.
MaxCaNames == 2

\* The names a ClientHello may list: the CAs of the configured key types, a
\* CA the server has no certificate of, and bytes that are not a DER name.
ListedNames ==
    {ca_distinguished_name(kt) : kt \in CaKeyTypes}
        \cup {ca_distinguished_name("EcdsaP256"), <<"not_der">>}

\* ClientHello::certificate_authorities: None, or Some(the listed names).
CasExtensions ==
    {<<>>} \cup {<<l>> : l \in UNION {[1..n -> ListedNames] : n \in 0..MaxCaNames}}

InitResolve ==
    /\ opts \in {[test |-> "resolve", key_types |-> l, certificate_authorities |-> e] :
                    l \in CaKeyTypeLists, e \in CasExtensions}
    /\ sess = None /\ conn = FreshConn
    /\ peer = ServerConnection_new(server_config_with_cert_resolver(opts.key_types))
    /\ pc = "client_hello"
    /\ loc = FreshLoc
    /\ exit = Running
    /\ trace = [resolved |-> None, calls |-> 0]
    /\ srv = None /\ cli = None /\ now = StartTime

\* The server asks its resolver for the certificate of this ClientHello.
ResolveCall ==
    /\ pc = "client_hello"
    /\ trace' = [resolved |-> ResolveServerCert(peer.config, opts.certificate_authorities),
                 calls |-> 1]
    /\ pc' = "resolved"
    /\ UNCHANGED <<opts, sess, conn, peer, loc, exit, cacheVars>>

\* The test's resolver is cloned into the configuration and asked again by
\* a later connection: it keeps no state.
ResolveAgain ==
    /\ pc = "resolved" /\ trace.calls = 1
    /\ trace' = [resolved |-> ResolveServerCert(peer.config, opts.certificate_authorities),
                 calls |-> 2]
    /\ UNCHANGED <<opts, sess, conn, peer, loc, exit, pc, cacheVars>>

NextResolve == ResolveCall \/ ResolveAgain

SpecResolve == InitResolve /\ [][NextResolve]_vars

ConfiguredList == peer.config.resolver.list

\* The positions of the configured entries whose CA name is listed.
ListedPositions ==
    IF opts.certificate_authorities = <<>> THEN {}
    ELSE {i \in DOMAIN ConfiguredList :
            \E j \in DOMAIN opts.certificate_authorities[1] :
                opts.certificate_authorities[1][j] = ConfiguredList[i].name}

\* C40: ResolvesCertChainByCaName.resolve always returns a certificate,
\* never None: the first configured entry (in configuration order) whose CA
\* name equals some name in the certificate_authorities extension of the
\* ClientHello, and the first configured entry (the default) when the
\* extension is absent or no listed name matches.
C40_ResolveAlwaysSome ==
    pc = "resolved" =>
        /\ trace.resolved # <<>>
        /\ Len(trace.resolved) = 1
        /\ trace.resolved[1] =
              IF ListedPositions = {} THEN ConfiguredList[1].key
              ELSE ConfiguredList[CHOOSE i \in ListedPositions :
                                     \A k \in ListedPositions : i <= k].key

\* C40, reached: two configured names are listed, the later configured one
\* first; the certificate is the one configured earlier, which is not the
\* default.
C40_Witness ==
    /\ pc = "resolved"
    /\ Len(ConfiguredList) = 3
    /\ opts.certificate_authorities = <<<<ConfiguredList[3].name, ConfiguredList[2].name>>>>
    /\ trace.resolved = <<ConfiguredList[2].key>>
    /\ ConfiguredList[2].key # ConfiguredList[1].key

\* C40, reached: the extension lists only names the server has no entry of;
\* the default is returned.
C40_WitnessNoMatch ==
    /\ pc = "resolved"
    /\ Len(ConfiguredList) = 2
    /\ opts.certificate_authorities # <<>>
    /\ Len(opts.certificate_authorities[1]) = 2
    /\ ListedPositions = {}
    /\ trace.resolved = <<ConfiguredList[1].key>>

\* C40, reached: no extension; the default is returned.
C40_WitnessAbsent ==
    /\ pc = "resolved"
    /\ Len(ConfiguredList) = 3
    /\ opts.certificate_authorities = <<>>
    /\ trace.resolved = <<ConfiguredList[1].key>>

=============================================================================
